---- MODULE Spec2Model ----
(***************************************************************************)
(* Protocol engine of the carplay dongle driver: the 16-byte frame header  *)
(* codec (message.rs), the message-type and command registries             *)
(* (messagetypes.rs, commands.rs), the sendable encoders (sendable.rs),    *)
(* the readable decoders (readable.rs), the dispatcher                     *)
(* MessageHeader::to_message, and the session DongleDriver (driver.rs)     *)
(* with the tasks it spawns and the outbound queue.                        *)
(*                                                                         *)
(* A u32 is kept as the pair <<high 16 bits, low 16 bits>>, so that the    *)
(* full 32-bit range (lengths, the complemented type field) stays inside   *)
(* the integers the model checker can represent.  A byte is 0..255 and a   *)
(* buffer is a sequence of bytes.                                          *)
(***************************************************************************)
EXTENDS Integers, Sequences, FiniteSets, TLC

\* the codec: one frame, encoded or received, then decoded
VARIABLES src, wire, data, header, extra_data, message

\* the session: the DongleDriver, its caller, the OUT endpoint, the outbound
\* queue and the spawned tasks
VARIABLES driver, pc, returned, handshake, written, queue, tasks, closed

codec_vars == <<src, wire, data, header, extra_data, message>>
session_vars ==
    <<driver, pc, returned, handshake, written, queue, tasks, closed>>

\* the inbound loop and the broadcast channel it publishes on
VARIABLES reader, channel, receivers

inbound_vars == <<reader, channel, receivers>>
vars == <<codec_vars, session_vars, inbound_vars>>

(***************************************************************************)
(* Option / Result values.                                                 *)
(***************************************************************************)
None == [tag |-> "None"]
Some(v) == [tag |-> "Some", value |-> v]
Ok(v) == [tag |-> "Ok", value |-> v]
Err(e) == [tag |-> "Err", error |-> e]
\* a panic (a failed unwrap, an out-of-range slice) unwinds the caller:
\* no value is returned
Panic == [tag |-> "Panic"]

(***************************************************************************)
(* 32-bit words and their little-endian encoding (byteorder crate).        *)
(***************************************************************************)
\* the u32 of a small natural
u32(n) == <<n \div 65536, n % 65536>>

\* !x on a u32
not_u32(x) == <<65535 - x[1], 65535 - x[2]>>

\* x as u8
as_u8(x) == x[2] % 256

\* LittleEndian::write_u32
write_u32(x) == <<x[2] % 256, x[2] \div 256, x[1] % 256, x[1] \div 256>>

\* LittleEndian::read_u32 of the four bytes that start after offset pos
read_u32(buf, pos) ==
    <<buf[pos + 3] + 256 * buf[pos + 4], buf[pos + 1] + 256 * buf[pos + 2]>>

\* Cursor reads: the read at offset pos of n bytes fails with UnexpectedEof
\* when fewer than n bytes remain
can_read(buf, pos, n) == pos + n <= Len(buf)

HEADER_SIZE == 16
MAGIC == <<21930, 21930>>   \* 0x55AA55AA

(***************************************************************************)
(* messagetypes.rs                                                         *)
(***************************************************************************)
Named(n) == [name |-> n]
Unknown(code) == [name |-> "Unknown", code |-> code]

\* enum MessageType: the named variants with their discriminants, in
\* declaration order
MessageTypeTable ==
    << <<"Open", 1>>, <<"Plugged", 2>>, <<"Phase", 3>>, <<"Unplugged", 4>>,
       <<"Touch", 5>>, <<"VideoData", 6>>, <<"AudioData", 7>>,
       <<"Command", 8>>, <<"LogoType", 9>>, <<"DisconnectPhone", 15>>,
       <<"CloseDongle", 21>>, <<"BluetoothAddress", 10>>,
       <<"BluetoothPIN", 12>>, <<"BluetoothDeviceName", 13>>,
       <<"WifiDeviceName", 14>>, <<"BluetoothPairedList", 18>>,
       <<"ManufacturerInfo", 20>>, <<"MultiTouch", 23>>, <<"HiCarLink", 24>>,
       <<"BoxSettings", 25>>, <<"MediaData", 42>>, <<"SendFile", 153>>,
       <<"HeartBeat", 170>>, <<"SoftwareVersion", 204>> >>

\* the 24 named variants of enum MessageType
NamedMessageTypes ==
    { Named(n) : n \in
        { "Open", "Plugged", "Phase", "Unplugged", "Touch", "VideoData",
          "AudioData", "Command", "LogoType", "DisconnectPhone",
          "CloseDongle", "BluetoothAddress", "BluetoothPIN",
          "BluetoothDeviceName", "WifiDeviceName", "BluetoothPairedList",
          "ManufacturerInfo", "MultiTouch", "HiCarLink", "BoxSettings",
          "MediaData", "SendFile", "HeartBeat", "SoftwareVersion" } }

\* a plausible slip: two neighbouring arms swapped
MessageType_from_swapped(value) ==
    CASE value = 1 -> Named("Open")
      [] value = 2 -> Named("Plugged")
      [] value = 3 -> Named("Phase")
      [] value = 4 -> Named("Unplugged")
      [] value = 5 -> Named("Touch")
      [] value = 6 -> Named("VideoData")
      [] value = 7 -> Named("AudioData")
      [] value = 8 -> Named("Command")
      [] value = 9 -> Named("LogoType")
      [] value = 10 -> Named("BluetoothAddress")
      [] value = 12 -> Named("BluetoothPIN")
      [] value = 13 -> Named("BluetoothDeviceName")
      [] value = 14 -> Named("WifiDeviceName")
      [] value = 15 -> Named("CloseDongle")
      [] value = 18 -> Named("BluetoothPairedList")
      [] value = 20 -> Named("ManufacturerInfo")
      [] value = 21 -> Named("DisconnectPhone")
      [] value = 23 -> Named("MultiTouch")
      [] value = 24 -> Named("HiCarLink")
      [] value = 25 -> Named("BoxSettings")
      [] value = 42 -> Named("MediaData")
      [] value = 153 -> Named("SendFile")
      [] value = 170 -> Named("HeartBeat")
      [] value = 204 -> Named("SoftwareVersion")
      [] OTHER -> Unknown(value)

\* impl From<u8> for MessageType
MessageType_from(value) ==
    CASE value = 1 -> Named("Open")
      [] value = 2 -> Named("Plugged")
      [] value = 3 -> Named("Phase")
      [] value = 4 -> Named("Unplugged")
      [] value = 5 -> Named("Touch")
      [] value = 6 -> Named("VideoData")
      [] value = 7 -> Named("AudioData")
      [] value = 8 -> Named("Command")
      [] value = 9 -> Named("LogoType")
      [] value = 10 -> Named("BluetoothAddress")
      [] value = 12 -> Named("BluetoothPIN")
      [] value = 13 -> Named("BluetoothDeviceName")
      [] value = 14 -> Named("WifiDeviceName")
      [] value = 15 -> Named("DisconnectPhone")
      [] value = 18 -> Named("BluetoothPairedList")
      [] value = 20 -> Named("ManufacturerInfo")
      [] value = 21 -> Named("CloseDongle")
      [] value = 23 -> Named("MultiTouch")
      [] value = 24 -> Named("HiCarLink")
      [] value = 25 -> Named("BoxSettings")
      [] value = 42 -> Named("MediaData")
      [] value = 153 -> Named("SendFile")
      [] value = 170 -> Named("HeartBeat")
      [] value = 204 -> Named("SoftwareVersion")
      [] OTHER -> Unknown(value)

\* impl From<MessageType> for u32
u32_from_MessageType(msg) ==
    CASE msg.name = "Open" -> u32(1)
      [] msg.name = "Plugged" -> u32(2)
      [] msg.name = "Phase" -> u32(3)
      [] msg.name = "Unplugged" -> u32(4)
      [] msg.name = "Touch" -> u32(5)
      [] msg.name = "VideoData" -> u32(6)
      [] msg.name = "AudioData" -> u32(7)
      [] msg.name = "Command" -> u32(8)
      [] msg.name = "LogoType" -> u32(9)
      [] msg.name = "BluetoothAddress" -> u32(10)
      [] msg.name = "BluetoothPIN" -> u32(12)
      [] msg.name = "BluetoothDeviceName" -> u32(13)
      [] msg.name = "WifiDeviceName" -> u32(14)
      [] msg.name = "DisconnectPhone" -> u32(15)
      [] msg.name = "BluetoothPairedList" -> u32(18)
      [] msg.name = "ManufacturerInfo" -> u32(20)
      [] msg.name = "CloseDongle" -> u32(21)
      [] msg.name = "MultiTouch" -> u32(23)
      [] msg.name = "HiCarLink" -> u32(24)
      [] msg.name = "BoxSettings" -> u32(25)
      [] msg.name = "MediaData" -> u32(42)
      [] msg.name = "SendFile" -> u32(153)
      [] msg.name = "HeartBeat" -> u32(170)
      [] msg.name = "SoftwareVersion" -> u32(204)
      [] msg.name = "Unknown" -> u32(msg.code)

(***************************************************************************)
(* commands.rs                                                             *)
(***************************************************************************)
\* the discriminants of enum CommandMapping, in declaration order
CommandTable ==
    << <<"Invalid", 0>>, <<"StartRecordAudio", 1>>, <<"StopRecordAudio", 2>>,
       <<"RequestHostUI", 3>>, <<"Siri", 5>>, <<"Mic", 7>>, <<"Frame", 12>>,
       <<"BoxMic", 15>>, <<"EnableNightMode", 16>>,
       <<"DisableNightMode", 17>>, <<"AudioTransferOn", 22>>,
       <<"AudioTransferOff", 23>>, <<"Wifi24g", 24>>, <<"Wifi5g", 25>>,
       <<"Left", 100>>, <<"Right", 101>>, <<"SelectDown", 104>>,
       <<"SelectUp", 105>>, <<"Back", 106>>, <<"Up", 113>>, <<"Down", 114>>,
       <<"Home", 200>>, <<"Play", 201>>, <<"Pause", 202>>,
       <<"PlayOrPause", 203>>, <<"Next", 204>>, <<"Prev", 205>>,
       <<"AcceptPhone", 300>>, <<"RejectPhone", 301>>,
       <<"RequestVideoFocus", 500>>, <<"ReleaseVideoFocus", 501>>,
       <<"WifiEnable", 1000>>, <<"AutoConnectEnable", 1001>>,
       <<"WifiConnect", 1002>>, <<"ScanningDevice", 1003>>,
       <<"DeviceFound", 1004>>, <<"DeviceNotFound", 1005>>,
       <<"ConnectDeviceFailed", 1006>>, <<"BtConnected", 1007>>,
       <<"BtDisconnected", 1008>>, <<"WifiConnected", 1009>>,
       <<"WifiDisconnected", 1010>>, <<"BtPairStart", 1011>>,
       <<"WifiPair", 1012>> >>

\* the named values of enum CommandMapping
CommandMapping == { CommandTable[i][1] : i \in DOMAIN CommandTable }

\* impl From<CommandMapping> for u32: cmd as u32, the discriminant
u32_from_CommandMapping(cmd) ==
    u32(CommandTable[CHOOSE i \in DOMAIN CommandTable :
                        CommandTable[i][1] = cmd][2])

\* a plausible slip: the arm 12 => Frame left out of the match
CommandMapping_from_no_frame(value) ==
    CASE value = u32(0) -> "Invalid"
      [] value = u32(1) -> "StartRecordAudio"
      [] value = u32(2) -> "StopRecordAudio"
      [] value = u32(3) -> "RequestHostUI"
      [] value = u32(5) -> "Siri"
      [] value = u32(7) -> "Mic"
      [] value = u32(15) -> "BoxMic"
      [] value = u32(16) -> "EnableNightMode"
      [] value = u32(17) -> "DisableNightMode"
      [] value = u32(24) -> "Wifi24g"
      [] value = u32(25) -> "Wifi5g"
      [] value = u32(100) -> "Left"
      [] value = u32(101) -> "Right"
      [] value = u32(22) -> "AudioTransferOn"
      [] value = u32(23) -> "AudioTransferOff"
      [] value = u32(104) -> "SelectDown"
      [] value = u32(105) -> "SelectUp"
      [] value = u32(106) -> "Back"
      [] value = u32(113) -> "Up"
      [] value = u32(114) -> "Down"
      [] value = u32(200) -> "Home"
      [] value = u32(201) -> "Play"
      [] value = u32(202) -> "Pause"
      [] value = u32(203) -> "PlayOrPause"
      [] value = u32(204) -> "Next"
      [] value = u32(205) -> "Prev"
      [] value = u32(300) -> "AcceptPhone"
      [] value = u32(301) -> "RejectPhone"
      [] value = u32(500) -> "RequestVideoFocus"
      [] value = u32(501) -> "ReleaseVideoFocus"
      [] value = u32(1000) -> "WifiEnable"
      [] value = u32(1001) -> "AutoConnectEnable"
      [] value = u32(1002) -> "WifiConnect"
      [] value = u32(1003) -> "ScanningDevice"
      [] value = u32(1004) -> "DeviceFound"
      [] value = u32(1005) -> "DeviceNotFound"
      [] value = u32(1006) -> "ConnectDeviceFailed"
      [] value = u32(1007) -> "BtConnected"
      [] value = u32(1008) -> "BtDisconnected"
      [] value = u32(1009) -> "WifiConnected"
      [] value = u32(1010) -> "WifiDisconnected"
      [] value = u32(1011) -> "BtPairStart"
      [] value = u32(1012) -> "WifiPair"
      [] OTHER -> "Invalid"

\* impl From<u32> for CommandMapping
CommandMapping_from(value) ==
    CASE value = u32(0) -> "Invalid"
      [] value = u32(1) -> "StartRecordAudio"
      [] value = u32(2) -> "StopRecordAudio"
      [] value = u32(3) -> "RequestHostUI"
      [] value = u32(5) -> "Siri"
      [] value = u32(7) -> "Mic"
      [] value = u32(15) -> "BoxMic"
      [] value = u32(16) -> "EnableNightMode"
      [] value = u32(17) -> "DisableNightMode"
      [] value = u32(24) -> "Wifi24g"
      [] value = u32(25) -> "Wifi5g"
      [] value = u32(100) -> "Left"
      [] value = u32(101) -> "Right"
      [] value = u32(12) -> "Frame"
      [] value = u32(22) -> "AudioTransferOn"
      [] value = u32(23) -> "AudioTransferOff"
      [] value = u32(104) -> "SelectDown"
      [] value = u32(105) -> "SelectUp"
      [] value = u32(106) -> "Back"
      [] value = u32(113) -> "Up"
      [] value = u32(114) -> "Down"
      [] value = u32(200) -> "Home"
      [] value = u32(201) -> "Play"
      [] value = u32(202) -> "Pause"
      [] value = u32(203) -> "PlayOrPause"
      [] value = u32(204) -> "Next"
      [] value = u32(205) -> "Prev"
      [] value = u32(300) -> "AcceptPhone"
      [] value = u32(301) -> "RejectPhone"
      [] value = u32(500) -> "RequestVideoFocus"
      [] value = u32(501) -> "ReleaseVideoFocus"
      [] value = u32(1000) -> "WifiEnable"
      [] value = u32(1001) -> "AutoConnectEnable"
      [] value = u32(1002) -> "WifiConnect"
      [] value = u32(1003) -> "ScanningDevice"
      [] value = u32(1004) -> "DeviceFound"
      [] value = u32(1005) -> "DeviceNotFound"
      [] value = u32(1006) -> "ConnectDeviceFailed"
      [] value = u32(1007) -> "BtConnected"
      [] value = u32(1008) -> "BtDisconnected"
      [] value = u32(1009) -> "WifiConnected"
      [] value = u32(1010) -> "WifiDisconnected"
      [] value = u32(1011) -> "BtPairStart"
      [] value = u32(1012) -> "WifiPair"
      [] OTHER -> "Invalid"

(***************************************************************************)
(* message.rs: the frame header                                            *)
(***************************************************************************)
MessageHeader(length, msg_type) == [length |-> length, msg_type |-> msg_type]

InvalidSize(size) == [kind |-> "InvalidSize", size |-> size]
InvalidMagic(magic) == [kind |-> "InvalidMagic", magic |-> magic]
InvalidTypeCheck(expected, actual) ==
    [kind |-> "InvalidTypeCheck", expected |-> expected, actual |-> actual]

\* a plausible slip: the magic is not compared
from_bytes_no_magic(buf) ==
    IF Len(buf) # HEADER_SIZE THEN Err(InvalidSize(Len(buf)))
    ELSE LET length == read_u32(buf, 4)
             type_raw == read_u32(buf, 8)
             type_check == read_u32(buf, 12)
             expected_check == not_u32(type_raw)
         IN  IF type_check # expected_check
             THEN Err(InvalidTypeCheck(expected_check, type_check))
             ELSE Ok(MessageHeader(length, MessageType_from(as_u8(type_raw))))

\* a plausible slip: the check field is compared before the magic
from_bytes_check_first(buf) ==
    IF Len(buf) # HEADER_SIZE THEN Err(InvalidSize(Len(buf)))
    ELSE LET magic == read_u32(buf, 0)
             length == read_u32(buf, 4)
             type_raw == read_u32(buf, 8)
             type_check == read_u32(buf, 12)
             expected_check == not_u32(type_raw)
         IN  IF type_check # expected_check
             THEN Err(InvalidTypeCheck(expected_check, type_check))
             ELSE IF magic # MAGIC THEN Err(InvalidMagic(magic))
             ELSE Ok(MessageHeader(length, MessageType_from(as_u8(type_raw))))

\* MessageHeader::from_bytes
from_bytes(buf) ==
    IF Len(buf) # HEADER_SIZE THEN Err(InvalidSize(Len(buf)))
    ELSE LET magic == read_u32(buf, 0)
         IN  IF magic # MAGIC THEN Err(InvalidMagic(magic))
             ELSE LET length == read_u32(buf, 4)
                      type_raw == read_u32(buf, 8)
                      type_check == read_u32(buf, 12)
                      expected_check == not_u32(type_raw)
                  IN  IF type_check # expected_check
                      THEN Err(InvalidTypeCheck(expected_check, type_check))
                      ELSE Ok(MessageHeader(length,
                                  MessageType_from(as_u8(type_raw))))

\* a plausible slip: the check field is written without the complement
to_bytes_no_complement(h) ==
    write_u32(MAGIC) \o write_u32(h.length)
        \o write_u32(u32_from_MessageType(h.msg_type))
        \o write_u32(u32_from_MessageType(h.msg_type))

\* MessageHeader::to_bytes
to_bytes(h) ==
    LET check == not_u32(u32_from_MessageType(h.msg_type))
    IN  write_u32(MAGIC) \o write_u32(h.length)
            \o write_u32(u32_from_MessageType(h.msg_type))
            \o write_u32(check)

(***************************************************************************)
(* driver.rs: the configuration                                            *)
(***************************************************************************)
\* enum HandDriveType
HandDriveType == << <<"Lhd", 0>>, <<"Rhd", 1>> >>
HandDriveType_as_u32(hand) ==
    u32(HandDriveType[CHOOSE i \in DOMAIN HandDriveType :
                          HandDriveType[i][1] = hand][2])
WifiType == { "Ghz2_4", "Ghz5" }
MicType == { "Box", "Os" }

\* impl Default for DongleConfig
DongleConfig_default ==
    [android_work_mode |-> None,
     width |-> u32(800), height |-> u32(640), fps |-> u32(20),
     dpi |-> u32(160), format |-> u32(5), i_box_version |-> u32(2),
     phone_work_mode |-> u32(2), packet_max |-> u32(49152),
     box_name |-> <<110, 111, 100, 101, 80, 108, 97, 121>>,
     night_mode |-> FALSE, hand |-> "Lhd", media_delay |-> u32(300),
     audio_transfer_mode |-> FALSE, wifi_type |-> "Ghz5", mic_type |-> "Os",
     phone_config |-> [CarPlay |-> [frame_interval |-> Some(u32(5000))],
                       AndroidAuto |-> [frame_interval |-> None]]]

\* the configuration setup_dongle builds
DongleConfig_setup_dongle ==
    [DongleConfig_default EXCEPT
        !.android_work_mode = Some(FALSE), !.box_name = <<116, 101, 115, 116>>,
        !.night_mode = TRUE, !.width = u32(1920), !.height = u32(1080),
        !.fps = u32(60), !.media_delay = u32(100)]

(***************************************************************************)
(* sendable.rs                                                             *)
(***************************************************************************)
SendCommand(value) == [kind |-> "SendCommand", value |-> value]
HeartBeat == [kind |-> "HeartBeat"]
SendCloseDongle == [kind |-> "SendCloseDongle"]
SendDisconnectPhone == [kind |-> "SendDisconnectPhone"]
SendTouch(x, y, action) ==
    [kind |-> "SendTouch", x |-> x, y |-> y, action |-> action]
SendLogoType(logo_type) == [kind |-> "SendLogoType", logo_type |-> logo_type]
SendMultiTouch(touches) == [kind |-> "SendMultiTouch", touches |-> touches]
SendAudio(samples) == [kind |-> "SendAudio", data |-> samples]
SendFile(content, file_name) ==
    [kind |-> "SendFile", content |-> content, file_name |-> file_name]
SendOpen(config) == [kind |-> "SendOpen", config |-> config]
\* now is what SystemTime::now() reads, in milliseconds since the epoch, at
\* the moment the payload is built
SendBoxSettings(config, sync_time, now) ==
    [kind |-> "SendBoxSettings", config |-> config, sync_time |-> sync_time,
     now |-> now]

\* a plausible slip: the command is written big-endian
SendCommand_get_payload_big_endian(m) ==
    LET w == write_u32(u32_from_CommandMapping(m.value))
    IN  <<w[4], w[3], w[2], w[1]>>

\* SendCommand::get_payload
SendCommand_get_payload(m) == write_u32(u32_from_CommandMapping(m.value))

(***************************************************************************)
(* f32 values.  A finite value is the fraction num / den with den a power  *)
(* of two; the operations below are exact on the values they are applied   *)
(* to, whose products with 10000 have far fewer than 24 significant bits.  *)
(***************************************************************************)
Finite(num, den) == [class |-> "Finite", num |-> num, den |-> den]
NaN == [class |-> "NaN"]
Infinity == [class |-> "Infinity"]
NegInfinity == [class |-> "NegInfinity"]

\* a < b on f32: false whenever an operand is NaN
f32_lt(a, b) ==
    CASE a.class = "NaN" \/ b.class = "NaN" -> FALSE
      [] a.class = "Infinity" -> FALSE
      [] b.class = "NegInfinity" -> FALSE
      [] a.class = "NegInfinity" -> TRUE
      [] b.class = "Infinity" -> TRUE
      [] OTHER -> a.num * b.den < b.num * a.den

\* 10000.0 * x
f32_times_10000(x) ==
    IF x.class = "Finite" THEN Finite(10000 * x.num, x.den) ELSE x

\* v as u32: truncation towards zero, saturating; NaN gives 0
f32_as_u32(v) ==
    CASE v.class = "NaN" -> u32(0)
      [] v.class = "NegInfinity" -> u32(0)
      [] v.class = "Infinity" -> <<65535, 65535>>
      [] OTHER -> IF v.num < 0 THEN u32(0) ELSE u32(v.num \div v.den)

\* enum TouchAction
TouchAction == << <<"Down", 14>>, <<"Move", 15>>, <<"Up", 16>> >>
TouchAction_as_u32(action) ==
    u32(TouchAction[CHOOSE i \in DOMAIN TouchAction :
                        TouchAction[i][1] = action][2])

\* a plausible slip: only the lower bound is enforced
clamp_lower_only(value, min, max) ==
    IF f32_lt(value, min) THEN min ELSE value

\* SendTouch::clamp
clamp(value, min, max) ==
    IF f32_lt(value, min) THEN min
    ELSE IF f32_lt(max, value) THEN max
    ELSE value

\* SendTouch::get_payload
SendTouch_get_payload(m) ==
    LET final_x == clamp(f32_times_10000(m.x), Finite(0, 1), Finite(10000, 1))
        final_y == clamp(f32_times_10000(m.y), Finite(0, 1), Finite(10000, 1))
    IN  write_u32(TouchAction_as_u32(m.action))
            \o write_u32(f32_as_u32(final_x))
            \o write_u32(f32_as_u32(final_y))
            \o write_u32(u32(0))

\* enum MultiTouchAction
MultiTouchAction == << <<"Down", 1>>, <<"Move", 2>>, <<"Up", 0>> >>
MultiTouchAction_as_u32(action) ==
    u32(MultiTouchAction[CHOOSE i \in DOMAIN MultiTouchAction :
                             MultiTouchAction[i][1] = action][2])

\* SendMultiTouch::new: the touches are numbered from 0 in their order; x
\* and y are the bit patterns of the f32 coordinates
SendMultiTouch_new(touch_data) ==
    SendMultiTouch([index \in 1..Len(touch_data) |->
                       [x |-> touch_data[index][1], y |-> touch_data[index][2],
                        action |-> touch_data[index][3],
                        id |-> u32(index - 1)]])

\* TouchItem::get_payload
TouchItem_get_payload(item) ==
    write_u32(item.x) \o write_u32(item.y)
        \o write_u32(MultiTouchAction_as_u32(item.action))
        \o write_u32(item.id)

\* SendMultiTouch::get_payload: the items' payloads one after the other
SendMultiTouch_get_payload(m) ==
    [k \in 1..(16 * Len(m.touches)) |->
        TouchItem_get_payload(m.touches[((k - 1) \div 16) + 1])[((k - 1) % 16) + 1]]

\* write_i16::<LittleEndian>
write_i16(sample) ==
    LET v == IF sample < 0 THEN sample + 65536 ELSE sample
    IN  <<v % 256, v \div 256>>

\* SendAudio::get_payload: decode_type 5, volume 0.0, audio_type 3, then the
\* samples
SendAudio_get_payload(m) ==
    write_u32(u32(5)) \o write_u32(u32(0)) \o write_u32(u32(3))
        \o [k \in 1..(2 * Len(m.data)) |->
               write_i16(m.data[((k - 1) \div 2) + 1])[((k - 1) % 2) + 1]]

\* the UTF-8 bytes of one code point
utf8_encode_char(cp) ==
    IF cp < 128 THEN <<cp>>
    ELSE IF cp < 2048 THEN <<192 + (cp \div 64), 128 + (cp % 64)>>
    ELSE IF cp < 65536
    THEN <<224 + (cp \div 4096), 128 + ((cp \div 64) % 64), 128 + (cp % 64)>>
    ELSE <<240 + (cp \div 262144), 128 + ((cp \div 4096) % 64),
           128 + ((cp \div 64) % 64), 128 + (cp % 64)>>

RECURSIVE into_bytes(_)
\* String::into_bytes: the UTF-8 bytes of the string's code points
into_bytes(string) ==
    IF string = <<>> THEN <<>>
    ELSE utf8_encode_char(Head(string)) \o into_bytes(Tail(string))

\* SendFile::get_file_name: the name with a NUL pushed at its end
get_file_name(m) == into_bytes(m.file_name \o <<0>>)

\* SendFile::get_length: the length of data as four little-endian bytes
get_length(content) == write_u32(u32(Len(content)))

\* SendFile::get_payload.  The second length field is written from
\* content_length.len(), the length of the buffer get_length returned.
SendFile_get_payload(m) ==
    LET new_file_name == get_file_name(m)
        content_length == get_length(m.content)
    IN  write_u32(u32(Len(new_file_name)))
            \o new_file_name
            \o write_u32(u32(Len(content_length)))
            \o m.content

\* FileAddress::as_str, the paths as ASCII
FileAddress ==
    << <<"Dpi", <<47, 116, 109, 112, 47, 115, 99, 114, 101, 101, 110, 95, 100, 112, 105>>>>,
       <<"NightMode", <<47, 116, 109, 112, 47, 110, 105, 103, 104, 116, 95, 109, 111, 100, 101>>>>,
       <<"HandDriveMode", <<47, 116, 109, 112, 47, 104, 97, 110, 100, 95, 100, 114, 105, 118, 101, 95, 109, 111, 100, 101>>>>,
       <<"ChargeMode", <<47, 116, 109, 112, 47, 99, 104, 97, 114, 103, 101, 95, 109, 111, 100, 101>>>>,
       <<"BoxName", <<47, 101, 116, 99, 47, 98, 111, 120, 95, 110, 97, 109, 101>>>>,
       <<"OemIcon", <<47, 101, 116, 99, 47, 111, 101, 109, 95, 105, 99, 111, 110, 46, 112, 110, 103>>>>,
       <<"AirplayConfig", <<47, 101, 116, 99, 47, 97, 105, 114, 112, 108, 97, 121, 46, 99, 111, 110, 102>>>>,
       <<"Icon120", <<47, 101, 116, 99, 47, 105, 99, 111, 110, 95, 49, 50, 48, 120, 49, 50, 48, 46, 112, 110, 103>>>>,
       <<"Icon180", <<47, 101, 116, 99, 47, 105, 99, 111, 110, 95, 49, 56, 48, 120, 49, 56, 48, 46, 112, 110, 103>>>>,
       <<"Icon250", <<47, 101, 116, 99, 47, 105, 99, 111, 110, 95, 50, 53, 54, 120, 50, 53, 54, 46, 112, 110, 103>>>>,
       <<"AndroidWorkMode", <<47, 101, 116, 99, 47, 97, 110, 100, 114, 111, 105, 100, 95, 119, 111, 114, 107, 95, 109, 111, 100, 101>>>> >>
FileAddress_as_str(file) ==
    FileAddress[CHOOSE i \in DOMAIN FileAddress : FileAddress[i][1] = file][2]

\* SendNumber::new, SendBoolean::new, SendString::new: each wraps a SendFile
\* and hands message_type and get_payload on to it
SendNumber_new(content, file) ==
    SendFile(write_u32(content), FileAddress_as_str(file))
SendBoolean_new(content, file) ==
    SendNumber_new(IF content THEN u32(1) ELSE u32(0), file)
SendString_new(content, file) ==
    SendFile(into_bytes(content), FileAddress_as_str(file))

\* SendOpen::get_payload
SendOpen_get_payload(m) ==
    write_u32(m.config.width) \o write_u32(m.config.height)
        \o write_u32(m.config.fps) \o write_u32(m.config.format)
        \o write_u32(m.config.packet_max)
        \o write_u32(m.config.i_box_version)
        \o write_u32(m.config.phone_work_mode)

\* An unsigned integer as its base-65536 digits, most significant first: a
\* u32 has two, a u64 four.  div10 is the quotient by ten, mod10 the
\* remainder.
RECURSIVE mod10(_, _)
mod10(limbs, carry) ==
    IF limbs = <<>> THEN carry
    ELSE mod10(Tail(limbs), (carry * 65536 + Head(limbs)) % 10)

RECURSIVE div10(_, _)
div10(limbs, carry) ==
    IF limbs = <<>> THEN <<>>
    ELSE LET v == carry * 65536 + Head(limbs)
         IN  <<v \div 10>> \o div10(Tail(limbs), v % 10)

RECURSIVE decimal(_)
\* the decimal digits serde_json writes for an unsigned integer
decimal(limbs) ==
    IF \A i \in DOMAIN limbs : limbs[i] = 0 THEN <<>>
    ELSE decimal(div10(limbs, 0)) \o <<48 + mod10(limbs, 0)>>

to_vec_number(limbs) ==
    IF \A i \in DOMAIN limbs : limbs[i] = 0 THEN <<48>> ELSE decimal(limbs)

\* SendBoxSettings::get_payload: serde_json::to_vec of the four fields in
\* declaration order
SendBoxSettings_get_payload(m) ==
    LET sync_time == IF m.sync_time.tag = "Some" THEN m.sync_time.value
                     ELSE m.now
    IN  <<123, 34, 109, 101, 100, 105, 97, 95, 100, 101, 108, 97, 121, 34, 58>> \o to_vec_number(m.config.media_delay)
            \o <<44, 34, 115, 121, 110, 99, 95, 116, 105, 109, 101, 34, 58>> \o to_vec_number(sync_time)
            \o <<44, 34, 97, 110, 100, 114, 111, 105, 100, 95, 97, 117, 116, 111, 95, 115, 105, 122, 101, 95, 119, 34, 58>> \o to_vec_number(m.config.width)
            \o <<44, 34, 97, 110, 100, 114, 111, 105, 100, 95, 97, 117, 116, 111, 95, 115, 105, 122, 101, 95, 104, 34, 58>> \o to_vec_number(m.config.height)
            \o <<125>>

\* enum LogoType
LogoType == << <<"HomeButton", 1>>, <<"Siri", 2>> >>
LogoType_as_u32(logo_type) ==
    u32(LogoType[CHOOSE i \in DOMAIN LogoType :
                     LogoType[i][1] = logo_type][2])

\* SendLogoType::get_payload
SendLogoType_get_payload(m) == write_u32(LogoType_as_u32(m.logo_type))

\* SendIconConfig::new: the lines "key = value" joined by newlines and ended
\* by one, sent as the file /etc/airplay.conf; label is an Option<&str>
SendIconConfig_new(label) ==
    LET fixed == <<111, 101, 109, 73, 99, 111, 110, 86, 105, 115, 105, 98, 108, 101, 32, 61, 32, 49, 10, 110, 97, 109, 101, 32, 61, 32, 65, 117, 116, 111, 66, 111, 120, 10, 109, 111, 100, 101, 108, 32, 61, 32, 77, 97, 103, 105, 99, 45, 67, 97, 114, 45, 76, 105, 110, 107, 45, 49, 46, 48, 48, 10, 111, 101, 109, 73, 99, 111, 110, 80, 97, 116, 104, 32, 61, 32, 47, 101, 116, 99, 47, 111, 101, 109, 95, 105, 99, 111, 110, 46, 112, 110, 103>>
        file_data == IF label.tag = "Some"
                     THEN fixed \o <<10, 111, 101, 109, 73, 99, 111, 110, 76, 97, 98, 101, 108, 32, 61, 32>> \o label.value
                     ELSE fixed
    IN  SendFile(file_data \o <<10>>, FileAddress_as_str("AirplayConfig"))

\* SendableMessage::message_type
message_type(m) ==
    CASE m.kind = "SendCommand" -> Named("Command")
      [] m.kind = "SendTouch" -> Named("Touch")
      [] m.kind = "SendMultiTouch" -> Named("MultiTouch")
      [] m.kind = "SendAudio" -> Named("AudioData")
      [] m.kind = "SendFile" -> Named("SendFile")
      [] m.kind = "HeartBeat" -> Named("HeartBeat")
      [] m.kind = "SendOpen" -> Named("Open")
      [] m.kind = "SendBoxSettings" -> Named("BoxSettings")
      [] m.kind = "SendLogoType" -> Named("LogoType")
      [] m.kind = "SendCloseDongle" -> Named("CloseDongle")
      [] m.kind = "SendDisconnectPhone" -> Named("DisconnectPhone")

\* SendableMessage::get_payload
get_payload(m) ==
    CASE m.kind = "SendCommand" -> SendCommand_get_payload(m)
      [] m.kind = "SendTouch" -> SendTouch_get_payload(m)
      [] m.kind = "SendMultiTouch" -> SendMultiTouch_get_payload(m)
      [] m.kind = "SendAudio" -> SendAudio_get_payload(m)
      [] m.kind = "SendFile" -> SendFile_get_payload(m)
      [] m.kind = "HeartBeat" -> <<>>
      [] m.kind = "SendOpen" -> SendOpen_get_payload(m)
      [] m.kind = "SendBoxSettings" -> SendBoxSettings_get_payload(m)
      [] m.kind = "SendLogoType" -> SendLogoType_get_payload(m)
      [] m.kind = "SendCloseDongle" -> <<>>
      [] m.kind = "SendDisconnectPhone" -> <<>>

\* a plausible slip: the length field counts the header too
serialize_counts_header(m) ==
    LET d == get_payload(m)
        message_header ==
            MessageHeader(u32(HEADER_SIZE + Len(d)), message_type(m))
    IN  to_bytes(message_header) \o d

\* SendableMessage::serialize
serialize(m) ==
    LET d == get_payload(m)
        message_header == MessageHeader(u32(Len(d)), message_type(m))
    IN  to_bytes(message_header) \o d

(***************************************************************************)
(* readable.rs: fixed-layout payloads.  Every read is unwrapped, so a      *)
(* read past the end of the buffer panics.                                 *)
(***************************************************************************)
\* Command::new
Command_new(h, d) ==
    IF ~can_read(d, 0, 4) THEN Panic
    ELSE [header |-> h, value |-> CommandMapping_from(read_u32(d, 0))]

\* ManufacturerInfo::new
ManufacturerInfo_new(h, d) ==
    IF ~can_read(d, 0, 4) \/ ~can_read(d, 4, 4) THEN Panic
    ELSE [header |-> h, a |-> read_u32(d, 0), b |-> read_u32(d, 4)]

\* impl From<u32> for PhoneType
PhoneType_from(value) ==
    CASE value = u32(1) -> "AndroidMirror"
      [] value = u32(3) -> "CarPlay"
      [] value = u32(4) -> "IphoneMirror"
      [] value = u32(5) -> "AndroidAuto"
      [] value = u32(6) -> "HiCar"
      [] OTHER -> "Unknown"

\* Plugged::new
Plugged_new(h, d) ==
    IF ~can_read(d, 0, 4) THEN Panic
    ELSE [header |-> h,
          phone_type |-> PhoneType_from(read_u32(d, 0)),
          wifi |-> IF Len(d) = 8 THEN Some(read_u32(d, 4)) ELSE None]

\* Phase::new
Phase_new(h, d) ==
    IF ~can_read(d, 0, 4) THEN Panic
    ELSE [header |-> h, phase |-> read_u32(d, 0)]

\* Opened::new
Opened_new(h, d) ==
    IF \E k \in 0..6 : ~can_read(d, 4 * k, 4) THEN Panic
    ELSE [header |-> h,
          width |-> read_u32(d, 0),
          height |-> read_u32(d, 4),
          fps |-> read_u32(d, 8),
          format |-> read_u32(d, 12),
          packet_max |-> read_u32(d, 16),
          i_box |-> read_u32(d, 20),
          phone_mode |-> read_u32(d, 24)]

\* Unplugged::new
Unplugged_new(h) == [header |-> h]

\* a plausible slip: the marker is built from a fresh header of the same type
Unknown_new_fresh_header(h) == [header |-> MessageHeader(u32(0), h.msg_type)]

\* a plausible slip: the marker forgets which tag it was read for
Unknown_new_forgets_tag(h) ==
    [header |-> MessageHeader(h.length, Unknown(0))]

\* Unknown::new
Unknown_new(h) == [header |-> h]

(***************************************************************************)
(* readable.rs: string payloads (String::from_utf8_lossy / from_utf8).     *)
(* A string is the sequence of its code points.                            *)
(***************************************************************************)
\* number of bytes the lead byte b announces, 0 for a byte that cannot lead
utf8_width(b) ==
    IF b < 128 THEN 1
    ELSE IF b >= 194 /\ b <= 223 THEN 2
    ELSE IF b >= 224 /\ b <= 239 THEN 3
    ELSE IF b >= 240 /\ b <= 244 THEN 4
    ELSE 0

is_cont(b) == b >= 128 /\ b <= 191

\* the second byte allowed after lead byte b (no overlong forms, no
\* surrogates, nothing above U+10FFFF)
second_ok(b, c) ==
    CASE b = 224 -> c >= 160 /\ c <= 191
      [] b = 237 -> c >= 128 /\ c <= 159
      [] b = 240 -> c >= 144 /\ c <= 191
      [] b = 244 -> c >= 128 /\ c <= 143
      [] OTHER -> is_cont(c)

\* length of the longest well-formed prefix of the sequence starting at
\* index i (1-based) of buf
utf8_prefix(buf, i) ==
    LET w == utf8_width(buf[i])
        n == Len(buf)
    IN  IF w = 0 THEN 0
        ELSE IF w = 1 \/ i + 1 > n \/ ~second_ok(buf[i], buf[i + 1]) THEN 1
        ELSE IF w = 2 \/ i + 2 > n \/ ~is_cont(buf[i + 2]) THEN 2
        ELSE IF w = 3 \/ i + 3 > n \/ ~is_cont(buf[i + 3]) THEN 3
        ELSE 4

\* the code point of the well-formed sequence of w bytes at index i
utf8_code_point(buf, i, w) ==
    CASE w = 1 -> buf[i]
      [] w = 2 -> (buf[i] - 192) * 64 + (buf[i + 1] - 128)
      [] w = 3 -> (buf[i] - 224) * 4096 + (buf[i + 1] - 128) * 64
                    + (buf[i + 2] - 128)
      [] w = 4 -> (buf[i] - 240) * 262144 + (buf[i + 1] - 128) * 4096
                    + (buf[i + 2] - 128) * 64 + (buf[i + 3] - 128)

\* the last index of the run of ASCII bytes that starts at index i; the
\* decoder takes such a run in one step
ascii_run_end(buf, i) ==
    CHOOSE k \in i..Len(buf) :
        /\ \A j \in i..k : buf[j] < 128
        /\ k = Len(buf) \/ buf[k + 1] >= 128

RECURSIVE utf8_chunks(_, _)
\* the chunks of buf from index i on: a decoded code point, or U+FFFD for
\* each maximal ill-formed part
utf8_chunks(buf, i) ==
    IF i > Len(buf) THEN <<>>
    ELSE IF buf[i] < 128
    THEN LET k == ascii_run_end(buf, i)
         IN  [j \in 1..(k - i + 1) |-> [cp |-> buf[i + j - 1], valid |-> TRUE]]
                 \o utf8_chunks(buf, k + 1)
    ELSE LET w == utf8_width(buf[i])
             k == utf8_prefix(buf, i)
         IN  IF w > 0 /\ k = w
             THEN <<[cp |-> utf8_code_point(buf, i, w), valid |-> TRUE]>>
                      \o utf8_chunks(buf, i + w)
             ELSE <<[cp |-> 65533, valid |-> FALSE]>>
                      \o utf8_chunks(buf, i + (IF k = 0 THEN 1 ELSE k))

\* String::from_utf8_lossy(..).into_owned()
from_utf8_lossy(buf) ==
    LET c == utf8_chunks(buf, 1) IN [j \in 1..Len(c) |-> c[j].cp]

\* String::from_utf8
from_utf8(buf) ==
    LET c == utf8_chunks(buf, 1)
    IN  IF \A j \in 1..Len(c) : c[j].valid
        THEN Ok([j \in 1..Len(c) |-> c[j].cp])
        ELSE Err("FromUtf8Error")

\* SoftwareVersion::new
SoftwareVersion_new(h, d) == [header |-> h, version |-> from_utf8_lossy(d)]

\* BluetoothAddress::new
BluetoothAddress_new(h, d) == [header |-> h, address |-> from_utf8_lossy(d)]

\* BluetoothPIN::new
BluetoothPIN_new(h, d) == [header |-> h, pin |-> from_utf8_lossy(d)]

\* BluetoothDeviceName::new
BluetoothDeviceName_new(h, d) == [header |-> h, name |-> from_utf8_lossy(d)]

\* WifiDeviceName::new
WifiDeviceName_new(h, d) == [header |-> h, name |-> from_utf8_lossy(d)]

\* HiCarLink::new
HiCarLink_new(h, d) == [header |-> h, link |-> from_utf8_lossy(d)]

\* BluetoothPairedList::new
BluetoothPairedList_new(h, d) == [header |-> h, data |-> from_utf8_lossy(d)]

(***************************************************************************)
(* readable.rs: AudioData                                                  *)
(***************************************************************************)
\* enum AudioCommand, discriminants 1..13 in declaration order
AudioCommand ==
    << "AudioOutputStart", "AudioOutputStop", "AudioInputConfig",
       "AudioPhonecallStart", "AudioPhonecallStop", "AudioNaviStart",
       "AudioNaviStop", "AudioSiriStart", "AudioSiriStop",
       "AudioMediaStart", "AudioMediaStop", "AudioAlertStart",
       "AudioAlertStop" >>

\* cursor.read_i8() followed by `as u32`: the byte is sign-extended
i8_as_u32(byte) == IF byte < 128 THEN <<0, byte>> ELSE <<65535, 65280 + byte>>

\* cursor.read_i16::<LittleEndian>() at offset pos
read_i16(buf, pos) ==
    LET v == buf[pos + 1] + 256 * buf[pos + 2]
    IN  IF v >= 32768 THEN v - 65536 ELSE v

\* Some(unsafe { std::mem::transmute(v) }) to Option<AudioCommand>.  For a
\* discriminant 1..13 the result is that variant.  Any other bit pattern is
\* undefined behaviour: the build may keep the pattern as a value that is no
\* variant, may read it back as None (the pattern is the niche that encodes
\* None), or may stop in the validity check of a debug build.
transmute_AudioCommand(v) ==
    IF v[1] = 0 /\ v[2] \in DOMAIN AudioCommand
    THEN { Some(AudioCommand[v[2]]) }
    ELSE { Some([invalid_bits |-> v]), None, Panic }

\* AudioData::new: the set of results the build can produce.  f32 fields
\* are kept as their bit pattern.
AudioData_new(h, d) ==
    IF \E k \in 0..2 : ~can_read(d, 4 * k, 4) THEN { Panic }
    ELSE LET decode_type == read_u32(d, 0)
             volume == read_u32(d, 4)
             audio_type == read_u32(d, 8)
             amount == Len(d) - 12
             result(command, volume_duration, samples) ==
                 [header |-> h, command |-> command,
                  decode_type |-> decode_type, volume |-> volume,
                  volume_duration |-> volume_duration,
                  audio_type |-> audio_type, data |-> samples]
         IN  IF amount = 1
             THEN { IF c = Panic THEN Panic ELSE result(c, None, None) :
                      c \in transmute_AudioCommand(i8_as_u32(d[13])) }
             ELSE IF amount = 4
             THEN { result(None, Some(read_u32(d, 12)), None) }
             ELSE { result(None, None,
                        Some([k \in 1..(amount \div 2) |->
                                 read_i16(d, 12 + 2 * (k - 1))])) }

(***************************************************************************)
(* readable.rs: VideoData, MediaData, BoxInfo                              *)
(***************************************************************************)
\* a plausible slip: the frame data taken from index 21 instead of 20
VideoData_new_skips_a_byte(h, d) ==
    IF Len(d) < 20 THEN Panic
    ELSE [header |-> h,
          width |-> read_u32(d, 0),
          height |-> read_u32(d, 4),
          flags |-> read_u32(d, 8),
          length |-> read_u32(d, 12),
          unknown |-> read_u32(d, 16),
          data |-> SubSeq(d, 22, Len(d))]

\* VideoData::new: data[..20] panics on a shorter buffer
VideoData_new(h, d) ==
    IF Len(d) < 20 THEN Panic
    ELSE [header |-> h,
          width |-> read_u32(d, 0),
          height |-> read_u32(d, 4),
          flags |-> read_u32(d, 8),
          length |-> read_u32(d, 12),
          unknown |-> read_u32(d, 16),
          data |-> SubSeq(d, 21, Len(d))]

\* struct MediaInfo with every field absent
EmptyMediaInfo ==
    [media_song_name |-> None, media_album_name |-> None,
     media_artist_name |-> None, media_app_name |-> None,
     media_song_duration |-> None, media_song_play_time |-> None]

\* serde_json::from_slice::<MediaInfo>: the parser is a library; it is
\* represented by the documents below, every other input is a parse error
MediaInfoDocuments ==
    { <<<<123, 125>>, EmptyMediaInfo>>,
      <<<<123, 34, 77, 101, 100, 105, 97, 83, 111, 110, 103, 78, 97, 109, 101, 34, 58, 34, 97, 34, 125>>,
        [EmptyMediaInfo EXCEPT !.media_song_name = Some(<<97>>)]>> }

json_MediaInfo(bytes) ==
    IF \E doc \in MediaInfoDocuments : doc[1] = bytes
    THEN Ok((CHOOSE doc \in MediaInfoDocuments : doc[1] = bytes)[2])
    ELSE Err("serde_json::Error")

\* serde_json::from_str::<BoxSettings>, represented the same way: one
\* document of each shape of the untagged enum
BoxSettingsDocuments ==
    { <<<<123, 34, 72, 105, 67, 97, 114, 34, 58, 49, 44, 34, 79, 101, 109, 78, 97, 109, 101, 34, 58, 34, 97, 34, 44, 34, 87, 105, 70, 105, 67, 104, 97, 110, 110, 101, 108, 34, 58, 51, 54, 44, 34, 98, 111, 120, 84, 121, 112, 101, 34, 58, 34, 98, 34, 44, 34, 104, 119, 86, 101, 114, 115, 105, 111, 110, 34, 58, 34, 99, 34, 44, 34, 112, 114, 111, 100, 117, 99, 116, 84, 121, 112, 101, 34, 58, 34, 100, 34, 44, 34, 117, 117, 105, 100, 34, 58, 34, 101, 34, 125>>,
        [shape |-> "Type1", hi_car |-> 1, oem_name |-> <<97>>,
         wifi_channel |-> 36, box_type |-> <<98>>, hw_version |-> <<99>>,
         product_type |-> <<100>>, uuid |-> <<101>>]>>,
      <<<<123, 34, 77, 68, 76, 105, 110, 107, 84, 121, 112, 101, 34, 58, 34, 97, 34, 44, 34, 77, 68, 77, 111, 100, 101, 108, 34, 58, 34, 98, 34, 44, 34, 77, 68, 79, 83, 86, 101, 114, 115, 105, 111, 110, 34, 58, 34, 99, 34, 44, 34, 77, 68, 76, 105, 110, 107, 86, 101, 114, 115, 105, 111, 110, 34, 58, 34, 100, 34, 44, 34, 99, 112, 117, 84, 101, 109, 112, 34, 58, 52, 48, 125>>,
        [shape |-> "Type2", md_link_type |-> <<97>>, md_model |-> <<98>>,
         md_os_version |-> <<99>>, md_link_version |-> <<100>>,
         cpu_temp |-> 40]>> }

json_BoxSettings(text) ==
    IF \E doc \in BoxSettingsDocuments : doc[1] = text
    THEN Ok((CHOOSE doc \in BoxSettingsDocuments : doc[1] = text)[2])
    ELSE Err("serde_json::Error")

\* the character of the standard base64 alphabet for a 6-bit value
base64_char(v) ==
    IF v < 26 THEN 65 + v
    ELSE IF v < 52 THEN 71 + v
    ELSE IF v < 62 THEN v - 4
    ELSE IF v = 62 THEN 43 ELSE 47

\* general_purpose::STANDARD.encode: four characters for every group of
\* three bytes, the last group padded with '='
base64_encode(bytes) ==
    LET n == Len(bytes)
        at(i) == IF i <= n THEN bytes[i] ELSE 0
    IN  [k \in 1..(4 * ((n + 2) \div 3)) |->
            LET g == (k - 1) \div 4
                j == (k - 1) % 4
                b0 == at(3 * g + 1)
                b1 == at(3 * g + 2)
                b2 == at(3 * g + 3)
                r == n - 3 * g
            IN  IF j = 0 THEN base64_char(b0 \div 4)
                ELSE IF j = 1 THEN base64_char((b0 % 4) * 16 + b1 \div 16)
                ELSE IF j = 2
                THEN IF r < 2 THEN 61
                     ELSE base64_char((b1 % 16) * 4 + b2 \div 64)
                ELSE IF r < 3 THEN 61 ELSE base64_char(b2 % 64)]

\* MediaData::new: data[..4] and data[4..data_len - 1] panic on a buffer
\* that is too short for the slice
MediaData_new(h, d) ==
    IF Len(d) < 4 THEN Panic
    ELSE LET type_val == read_u32(d, 0)
         IN  IF type_val = u32(1)
             THEN IF Len(d) - 1 < 4 THEN Panic
                  ELSE LET media == json_MediaInfo(SubSeq(d, 5, Len(d) - 1))
                       IN  [header |-> h,
                            payload |-> IF media.tag = "Ok"
                                        THEN Some([kind |-> "Data",
                                                   media |-> media.value])
                                        ELSE None]
             ELSE IF type_val = u32(3)
             THEN [header |-> h,
                   payload |-> Some([kind |-> "AlbumCover",
                                     base64_image |->
                                         base64_encode(SubSeq(d, 5, Len(d)))])]
             ELSE [header |-> h, payload |-> None]

\* BoxInfo::new: both conversions are unwrapped
BoxInfo_new(h, d) ==
    LET data_string == from_utf8(d)
    IN  IF data_string.tag # "Ok" THEN Panic
        ELSE LET settings == json_BoxSettings(data_string.value)
             IN  IF settings.tag # "Ok" THEN Panic
                 ELSE [header |-> h, settings |-> settings.value]

(***************************************************************************)
(* message.rs: the dispatcher                                              *)
(***************************************************************************)
\* Ok(Box::new(Message::<kind>(body))); a panic while the body is built
\* leaves no result
Message(kind, body) ==
    IF body = Panic THEN Panic ELSE Ok([kind |-> kind, body |-> body])

\* a plausible slip: the (Unplugged, None) arm left out of the match
to_message_no_unplugged(h, p) ==
    LET t == h.msg_type.name
        some == p.tag = "Some"
        d == p.value
    IN
      CASE t = "Command" /\ some ->
              { Message("ReadCommand", Command_new(h, d)) }
        [] t = "ManufacturerInfo" /\ some ->
              { Message("ReadManufacturerInfo", ManufacturerInfo_new(h, d)) }
        [] t = "SoftwareVersion" /\ some ->
              { Message("ReadSoftwareVersion", SoftwareVersion_new(h, d)) }
        [] t = "BluetoothAddress" /\ some ->
              { Message("ReadBluetoothAddress", BluetoothAddress_new(h, d)) }
        [] t = "BluetoothPIN" /\ some ->
              { Message("ReadBluetoothPIN", BluetoothPIN_new(h, d)) }
        [] t = "BluetoothDeviceName" /\ some ->
              { Message("ReadBluetoothDeviceName", BluetoothDeviceName_new(h, d)) }
        [] t = "WifiDeviceName" /\ some ->
              { Message("ReadWifiDeviceName", WifiDeviceName_new(h, d)) }
        [] t = "HiCarLink" /\ some ->
              { Message("ReadHiCarLink", HiCarLink_new(h, d)) }
        [] t = "BluetoothPairedList" /\ some ->
              { Message("ReadBluetoothPairedList", BluetoothPairedList_new(h, d)) }
        [] t = "Plugged" /\ some ->
              { Message("ReadPlugged", Plugged_new(h, d)) }
        [] t = "AudioData" /\ some ->
              { Message("ReadAudioData", r) : r \in AudioData_new(h, d) }
        [] t = "VideoData" /\ some ->
              { Message("ReadVideoData", VideoData_new(h, d)) }
        [] t = "MediaData" /\ some ->
              { Message("ReadMediaData", MediaData_new(h, d)) }
        [] t = "BoxSettings" /\ some ->
              { Message("ReadBoxSettings", BoxInfo_new(h, d)) }
        [] t = "Phase" /\ some ->
              { Message("ReadPhase", Phase_new(h, d)) }
        [] t = "Open" /\ some ->
              { Message("ReadOpen", Opened_new(h, d)) }
        [] t = "Touch" /\ ~some ->
              { Message("SendTouch", SendTouch(Finite(0, 1), Finite(0, 1), "Down")) }
        [] t = "LogoType" /\ ~some ->
              { Message("SendLogoType", SendLogoType("HomeButton")) }
        [] t = "DisconnectPhone" /\ ~some ->
              { Message("SendDisconnectPhone", SendDisconnectPhone) }
        [] t = "CloseDongle" /\ ~some ->
              { Message("SendCloseDongle", SendCloseDongle) }
        [] t = "MultiTouch" /\ ~some ->
              { Message("SendMultiTouch", SendMultiTouch_new(<<>>)) }
        [] t = "SendFile" /\ some ->
              { Message("SendFile", SendFile(d, <<>>)) }
        [] t = "HeartBeat" /\ ~some ->
              { Message("ReadHeartBeat", HeartBeat) }
        [] t = "Unknown" /\ ~some ->
              { Message("ReadUnknown", Unknown_new(h)) }
        [] OTHER ->
              { Message("ReadUnknown", Unknown_new(h)) }

\* MessageHeader::to_message: the set of results the build can produce (one
\* result for every arm but AudioData)
to_message(h, p) ==
    LET t == h.msg_type.name
        some == p.tag = "Some"
        d == p.value
    IN
      CASE t = "Command" /\ some ->
              { Message("ReadCommand", Command_new(h, d)) }
        [] t = "ManufacturerInfo" /\ some ->
              { Message("ReadManufacturerInfo", ManufacturerInfo_new(h, d)) }
        [] t = "SoftwareVersion" /\ some ->
              { Message("ReadSoftwareVersion", SoftwareVersion_new(h, d)) }
        [] t = "BluetoothAddress" /\ some ->
              { Message("ReadBluetoothAddress", BluetoothAddress_new(h, d)) }
        [] t = "BluetoothPIN" /\ some ->
              { Message("ReadBluetoothPIN", BluetoothPIN_new(h, d)) }
        [] t = "BluetoothDeviceName" /\ some ->
              { Message("ReadBluetoothDeviceName", BluetoothDeviceName_new(h, d)) }
        [] t = "WifiDeviceName" /\ some ->
              { Message("ReadWifiDeviceName", WifiDeviceName_new(h, d)) }
        [] t = "HiCarLink" /\ some ->
              { Message("ReadHiCarLink", HiCarLink_new(h, d)) }
        [] t = "BluetoothPairedList" /\ some ->
              { Message("ReadBluetoothPairedList", BluetoothPairedList_new(h, d)) }
        [] t = "Plugged" /\ some ->
              { Message("ReadPlugged", Plugged_new(h, d)) }
        [] t = "AudioData" /\ some ->
              { Message("ReadAudioData", r) : r \in AudioData_new(h, d) }
        [] t = "VideoData" /\ some ->
              { Message("ReadVideoData", VideoData_new(h, d)) }
        [] t = "MediaData" /\ some ->
              { Message("ReadMediaData", MediaData_new(h, d)) }
        [] t = "BoxSettings" /\ some ->
              { Message("ReadBoxSettings", BoxInfo_new(h, d)) }
        [] t = "Phase" /\ some ->
              { Message("ReadPhase", Phase_new(h, d)) }
        [] t = "Unplugged" /\ ~some ->
              { Message("ReadUnplugged", Unplugged_new(h)) }
        [] t = "Open" /\ some ->
              { Message("ReadOpen", Opened_new(h, d)) }
        [] t = "Touch" /\ ~some ->
              { Message("SendTouch", SendTouch(Finite(0, 1), Finite(0, 1), "Down")) }
        [] t = "LogoType" /\ ~some ->
              { Message("SendLogoType", SendLogoType("HomeButton")) }
        [] t = "DisconnectPhone" /\ ~some ->
              { Message("SendDisconnectPhone", SendDisconnectPhone) }
        [] t = "CloseDongle" /\ ~some ->
              { Message("SendCloseDongle", SendCloseDongle) }
        [] t = "MultiTouch" /\ ~some ->
              { Message("SendMultiTouch", SendMultiTouch_new(<<>>)) }
        [] t = "SendFile" /\ some ->
              { Message("SendFile", SendFile(d, <<>>)) }
        [] t = "HeartBeat" /\ ~some ->
              { Message("ReadHeartBeat", HeartBeat) }
        [] t = "Unknown" /\ ~some ->
              { Message("ReadUnknown", Unknown_new(h)) }
        [] OTHER ->
              { Message("ReadUnknown", Unknown_new(h)) }

(***************************************************************************)
(* Inputs.  The encoders are driven with every type tag and command, the   *)
(* decoders with frames as the IN endpoint can deliver them: well-formed   *)
(* frames, and headers whose magic, type or check field is damaged.        *)
(***************************************************************************)
MaxPayloadLen == 30
MaxCode == 1020

\* x with bit k (0 = least significant) inverted
flip16(w, k) == IF (w \div (2 ^ k)) % 2 = 1 THEN w - 2 ^ k ELSE w + 2 ^ k
flip_bit(x, k) ==
    IF k < 16 THEN <<x[1], flip16(x[2], k)>>
    ELSE <<flip16(x[1], k - 16), x[2]>>

Lengths == { u32(0), u32(1), u32(65535), <<1, 0>>, <<65535, 65535>> }
Magics == { MAGIC, u32(0), flip_bit(MAGIC, 0), <<43605, 43605>> }
TypeRaws ==
    { u32(0), u32(8), u32(66), u32(170), u32(255), u32(264), <<1, 8>>,
      <<65535, 65535>> }
Checks(type_raw) ==
    { not_u32(type_raw), type_raw, u32(0) }
        \cup { flip_bit(not_u32(type_raw), k) : k \in 0..31 }
Codes ==
    { u32(n) : n \in 0..MaxCode } \cup { <<1, 0>>, <<1, 1>>, <<65535, 65535>> }

\* little-endian words 1, 2, 3, ...
Counting(n) == [i \in 1..n |-> IF i % 4 = 1 THEN (i \div 4) + 1 ELSE 0]
\* bytes 255, 254, 253, ...
Descending(n) == [i \in 1..n |-> 256 - i]
TailBytes == { 0, 1, 13, 14, 127, 128, 255 }
\* the documents the JSON decoders know, and `{}`, which is JSON of neither
\* BoxSettings shape
JsonTexts ==
    { doc[1] : doc \in MediaInfoDocuments \cup BoxSettingsDocuments }
        \cup { <<123, 125>> }
\* MediaData payloads: a type word, a text, with and without the byte that
\* the type-1 branch drops
MediaPayloads ==
    { write_u32(u32(t)) \o text \o term :
        t \in {1, 2, 3},
        text \in { doc[1] : doc \in MediaInfoDocuments } \cup { <<>>, <<77, 97>> },
        term \in { <<>>, <<0>> } }
Payloads ==
    { Counting(n) : n \in 0..MaxPayloadLen }
        \cup { Descending(n) : n \in 0..MaxPayloadLen }
        \cup { Counting(12) \o <<b>> : b \in TailBytes }
        \cup JsonTexts
        \cup MediaPayloads

\* configurations: the default and the one of setup_dongle, with every
\* choice of the options a handshake depends on
Configs ==
    { [c EXCEPT !.wifi_type = w, !.mic_type = mic,
                !.audio_transfer_mode = a, !.hand = hand] :
        c \in { DongleConfig_default, DongleConfig_setup_dongle },
        w \in WifiType, mic \in MicType, a \in BOOLEAN,
        hand \in { "Lhd", "Rhd" } }

\* f32 coordinates: below 0, 0, inside the range, 1, above 1, and the
\* values that are no number
Coordinates ==
    { Finite(n, 32) : n \in { -64, -1, 0, 1, 16, 31, 32, 33, 64 } }
        \cup { Finite(0 - 1, 1), Finite(2, 1), NaN, Infinity, NegInfinity }

\* bit patterns of 0.0, 0.5 and 1.0
TouchData ==
    { <<>>,
      << <<u32(0), <<16128, 0>>, "Down">> >>,
      << <<<<16256, 0>>, u32(0), "Move">>, <<u32(0), u32(0), "Up">> >> }

\* file names as strings: none, one with a two-byte character, the paths
FileNames ==
    { <<>>, <<233>>, <<97, 8364>> }
        \cup { FileAddress[i][2] : i \in DOMAIN FileAddress }
FileContents == { Descending(n) : n \in { 0, 1, 3, 4, 5, 8 } }

\* readings of the clock in milliseconds, as u64: the epoch, late 2025, and
\* the largest value
Clock == { <<0, 0, 0, 0>>, <<0, 410, 16226, 21504>>, <<65535, 65535, 65535, 65535>> }

Sendables ==
    { SendCommand(v) : v \in CommandMapping }
        \cup { HeartBeat, SendCloseDongle, SendDisconnectPhone }
        \cup { SendTouch(x, y, TouchAction[i][1]) :
                 x \in Coordinates, y \in Coordinates, i \in DOMAIN TouchAction }
        \cup { SendMultiTouch_new(t) : t \in TouchData }
        \cup { SendAudio(samples) :
                 samples \in { <<>>, <<0 - 32768, 0 - 1, 0, 1, 32767>> } }
        \cup { SendFile(content, name) :
                 content \in FileContents, name \in FileNames }
        \cup { SendNumber_new(n, FileAddress[i][1]) :
                 n \in { u32(0), u32(160), <<65535, 65535>> },
                 i \in DOMAIN FileAddress }
        \cup { SendBoolean_new(b, FileAddress[i][1]) :
                 b \in BOOLEAN, i \in DOMAIN FileAddress }
        \cup { SendString_new(c.box_name, "BoxName") : c \in Configs }
        \cup { SendOpen(c) : c \in Configs }
        \cup { SendBoxSettings(c, t, now) :
                 c \in Configs, t \in { None, Some(<<0, 0, 0, 5>>) },
                 now \in Clock }
        \cup { SendLogoType(LogoType[i][1]) : i \in DOMAIN LogoType }
        \cup { SendIconConfig_new(label) : label \in { None, Some(<<120>>) } }

ReadSizes == { 0, 15, 16, 17 }

(***************************************************************************)
(* driver.rs: the session                                                  *)
(***************************************************************************)
\* KNOWN_DEVICES: vendor 0x1314, products 0x1520 and 0x1521
KNOWN_DEVICES ==
    << [vendor_id |-> 4884, product_id |-> 5408],
       [vendor_id |-> 4884, product_id |-> 5409] >>

\* the filter of initialize: .find(|dev| dev.vendor_id() == 0x1314 &&
\* dev.product_id() == 0x1521) over the listed devices
find_dongle(devices) ==
    LET found == { dev \in devices :
                     dev.vendor_id = 4884 /\ dev.product_id = 5409 }
    IN  IF found = {} THEN None ELSE Some(CHOOSE dev \in found : TRUE)

\* DongleDriver::new
DongleDriver_new ==
    [device |-> None, interface |-> None, in_ep |-> None, out_ep |-> None,
     error_count |-> 0, max_error_count |-> 5, heartbeat_handle |-> None]

\* the message with the clock reading its payload is built from; only
\* SendBoxSettings reads the clock
at_clock(m, now) ==
    IF m.kind = "SendBoxSettings" THEN [m EXCEPT !.now = now] ELSE m

\* a plausible slip: Open sent before the DPI file
StartFrames_open_first(config) ==
    << SendOpen(config),
       SendNumber_new(config.dpi, "Dpi"),
       SendBoolean_new(config.night_mode, "NightMode"),
       SendNumber_new(HandDriveType_as_u32(config.hand), "HandDriveMode"),
       SendBoolean_new(TRUE, "ChargeMode"),
       SendString_new(config.box_name, "BoxName"),
       SendBoxSettings(config, None, None),
       SendCommand("WifiEnable"),
       SendCommand(IF config.wifi_type = "Ghz5" THEN "Wifi5g" ELSE "Wifi24g"),
       SendCommand(IF config.mic_type = "Box" THEN "BoxMic" ELSE "Mic"),
       SendCommand(IF config.audio_transfer_mode THEN "AudioTransferOn"
                   ELSE "AudioTransferOff") >>

\* DongleDriver::start: the messages handed to send, in program order
StartFrames(config) ==
    << SendNumber_new(config.dpi, "Dpi"),
       SendOpen(config),
       SendBoolean_new(config.night_mode, "NightMode"),
       SendNumber_new(HandDriveType_as_u32(config.hand), "HandDriveMode"),
       SendBoolean_new(TRUE, "ChargeMode"),
       SendString_new(config.box_name, "BoxName"),
       SendBoxSettings(config, None, None),
       SendCommand("WifiEnable"),
       SendCommand(IF config.wifi_type = "Ghz5" THEN "Wifi5g" ELSE "Wifi24g"),
       SendCommand(IF config.mic_type = "Box" THEN "BoxMic" ELSE "Mic"),
       SendCommand(IF config.audio_transfer_mode THEN "AudioTransferOn"
                   ELSE "AudioTransferOff") >>

\* DongleDriver::send: the unwraps panic when the endpoint or the interface
\* is missing; otherwise the bulk transfer completes or fails
send(d) ==
    IF d.out_ep = None \/ d.interface = None THEN { Panic }
    ELSE { Ok(<<>>), Err("UsbTransferError") }

\* starts of a session that are followed, and messages the outbound queue
\* holds (mpsc::channel(64) in main): the model keeps both small
MaxStarts == 2
MaxQueued == 2

\* JoinHandle::abort on a heartbeat task, the states it can leave the task
\* in: a task suspended at an await is shut down without running again; a
\* task whose tick completed is shut down before it is polled, or is being
\* polled on another worker, goes on to its next await and is shut down there
abort(state) ==
    CASE state = "tick" -> { "cancelled" }
      [] state = "sending" -> { "cancelled" }
      [] state = "woken" -> { "cancelled", "woken_aborted" }
      [] OTHER -> { state }

(***************************************************************************)
(* driver.rs: the inbound loop and the broadcast channel of main.rs        *)
(***************************************************************************)
\* HEADER_DATA_LENGTH
HEADER_DATA_LENGTH == 16

\* messages the broadcast channel retains (channel(64) in main), and the
\* receivers that subscribe to it
MaxBuffered == 2
Receivers == { "video", "audio" }

\* the read task before read_loop spawns it, and at its first await
ReaderOff == [at |-> "off", request |-> u32(0), transfer |-> "none"]
ReaderStart ==
    [at |-> "header_read", request |-> u32(HEADER_DATA_LENGTH),
     transfer |-> "none"]

\* a receiver that has not subscribed; Sender::subscribe gives one that has
\* nothing to receive yet
Unsubscribed == [subscribed |-> FALSE, unread |-> 0, lagged |-> FALSE]
subscribe == [subscribed |-> TRUE, unread |-> 0, lagged |-> FALSE]

\* Sender::receiver_count
receiver_count == Cardinality({ r \in Receivers : receivers[r].subscribed })

\* the messages a receiver has still to receive, oldest first
Pending(r) ==
    SubSeq(channel, Len(channel) - receivers[r].unread + 1, Len(channel))

\* broadcast Sender::send with a receiver subscribed: the message takes the
\* place of the oldest one when the channel is full
broadcast_send(buffer, m) ==
    IF Len(buffer) < MaxBuffered THEN Append(buffer, m)
    ELSE Append(Tail(buffer), m)

\* what a send does to a receiver: one more message to receive, or, with
\* MaxBuffered unreceived already, the oldest of them is lost
after_send(rx) ==
    IF ~rx.subscribed THEN rx
    ELSE IF rx.unread < MaxBuffered THEN [rx EXCEPT !.unread = @ + 1]
    ELSE [rx EXCEPT !.lagged = TRUE]

(***************************************************************************)
(* State.                                                                  *)
(*   src         what was encoded onto the wire, None for a frame that     *)
(*               came from the device                                      *)
(*   wire        the bytes of the frame                                    *)
(*   data        the buffer handed to from_bytes                           *)
(*   header      the result of from_bytes, None before the call            *)
(*   extra_data  the Option<Vec<u8>> handed to to_message                  *)
(*   message     the result of to_message, None before the call            *)
(*   driver      the fields of the DongleDriver                            *)
(*   pc          where the caller of the session is: idle between calls,   *)
(*               inside initialize (with the devices of its last listing   *)
(*               when the dongle was not among them), inside start, inside *)
(*               run (waiting on the queue or on a write), or panicked     *)
(*   returned    what a call returned in the last step, None after every   *)
(*               other step                                                *)
(*   handshake   the frames the running call of start has written to the   *)
(*               OUT endpoint so far, empty outside start                  *)
(*   written     the frame the outbound loop wrote to the OUT endpoint in  *)
(*               the last step, or the error of its write, None after      *)
(*               every other step                                          *)
(*   queue       the messages in the outbound channel                      *)
(*   tasks       for the n-th spawn of start, where its WifiConnect task   *)
(*               and its heartbeat task are                                *)
(*   closed      close has returned and start has not returned Ok since    *)
(*   reader      the read task: the await it is at, the bytes its pending  *)
(*               transfer asks for, how its last transfer ended            *)
(*   channel     the messages the broadcast channel retains, oldest first  *)
(*   receivers   for each receiver of the channel, how many retained       *)
(*               messages it has still to receive and whether it lost some *)
(***************************************************************************)
Init ==
    /\ src = None
    /\ wire = <<>>
    /\ data = <<>>
    /\ header = None
    /\ extra_data = None
    /\ message = None
    /\ driver = DongleDriver_new
    /\ pc = [at |-> "idle"]
    /\ returned = None
    /\ handshake = <<>>
    /\ written = None
    /\ queue = <<>>
    /\ tasks = [id \in 1..MaxStarts |->
                  [wifi |-> "unspawned", heartbeat |-> "unspawned"]]
    /\ closed = FALSE
    /\ reader = ReaderOff
    /\ channel = <<>>
    /\ receivers = [r \in Receivers |-> Unsubscribed]

\* a behaviour follows one frame: it is produced once, then decoded
Fresh == wire = <<>>

Undecoded ==
    /\ data' = <<>>
    /\ header' = None
    /\ extra_data' = None
    /\ message' = None

\* MessageHeader { length, msg_type: MessageType::from(tag) }.to_bytes()
ToBytes(tag, length) ==
    LET h == MessageHeader(length, MessageType_from(tag))
    IN  /\ Fresh
        /\ src' = [tag |-> "Header", value |-> h, byte |-> tag]
        /\ wire' = to_bytes(h)
        /\ Undecoded
        /\ UNCHANGED <<session_vars, inbound_vars>>

\* m.serialize() of a sendable message built as a struct literal
Serialize(m) ==
    /\ Fresh
    /\ src' = [tag |-> "Sendable", value |-> m]
    /\ wire' = serialize(m)
    /\ Undecoded
    /\ UNCHANGED <<session_vars, inbound_vars>>

\* SendCommand::new(code).serialize()
SendCommand_new(code) ==
    LET m == SendCommand(CommandMapping_from(code))
    IN  /\ Fresh
        /\ src' = [tag |-> "New", value |-> m, code |-> code]
        /\ wire' = serialize(m)
        /\ Undecoded
        /\ UNCHANGED <<session_vars, inbound_vars>>

\* the device delivers a well-formed frame: header of the given tag with the
\* length of the payload, then the payload
ReceiveFrame(tag, payload) ==
    /\ Fresh
    /\ src' = None
    /\ wire' = write_u32(MAGIC) \o write_u32(u32(Len(payload)))
                 \o write_u32(u32(tag)) \o write_u32(not_u32(u32(tag)))
                 \o payload
    /\ Undecoded
    /\ UNCHANGED <<session_vars, inbound_vars>>

\* the IN endpoint delivers 16 bytes with arbitrary field values
ReceiveHeader(magic, length, type_raw, check) ==
    /\ Fresh
    /\ src' = None
    /\ wire' = write_u32(magic) \o write_u32(length) \o write_u32(type_raw)
                 \o write_u32(check)
    /\ Undecoded
    /\ UNCHANGED <<session_vars, inbound_vars>>

\* MessageHeader::from_bytes(&header_data) on the first n bytes of the frame
FromBytes(n) ==
    /\ wire # <<>>
    /\ header = None
    /\ n <= Len(wire)
    /\ data' = SubSeq(wire, 1, n)
    /\ header' = from_bytes(SubSeq(wire, 1, n))
    /\ extra_data' = None
    /\ message' = None
    /\ UNCHANGED <<src, wire>>
    /\ UNCHANGED <<session_vars, inbound_vars>>

\* header.to_message(extra_data): without a payload, or with the bytes that
\* follow the header
ToMessage(p) ==
    /\ header.tag = "Ok"
    /\ message = None
    /\ extra_data' = p
    /\ message' \in to_message(header.value, p)
    /\ UNCHANGED <<src, wire, data, header>>
    /\ UNCHANGED <<session_vars, inbound_vars>>

\* The steps, each with the inputs it is tried on; the guard is stated before
\* the inputs are drawn.
EncodeHeader ==
    /\ Fresh
    /\ \E tag \in 0..255, length \in Lengths : ToBytes(tag, length)

EncodeMessage ==
    /\ Fresh
    /\ \E m \in Sendables : Serialize(m)

EncodeCommandCode ==
    /\ Fresh
    /\ \E code \in Codes : SendCommand_new(code)

DeviceFrame ==
    /\ Fresh
    /\ \E tag \in 0..255, payload \in Payloads : ReceiveFrame(tag, payload)

DeviceHeader ==
    /\ Fresh
    /\ \E magic \in Magics, length \in Lengths, type_raw \in TypeRaws :
           \E check \in Checks(type_raw) :
               ReceiveHeader(magic, length, type_raw, check)

DecodeHeader == \E n \in ReadSizes : FromBytes(n)

Dispatch ==
    /\ header.tag = "Ok"
    /\ \E p \in { None, Some(SubSeq(wire, HEADER_SIZE + 1, Len(wire))) } :
           ToMessage(p)

Next ==
    \/ EncodeHeader
    \/ EncodeMessage
    \/ EncodeCommandCode
    \/ DeviceFrame
    \/ DeviceHeader
    \/ DecodeHeader
    \/ Dispatch

Spec == Init /\ [][Next]_vars

(***************************************************************************)
(* driver.rs: the session as a state machine.  The caller owns the         *)
(* DongleDriver and calls initialize, start, close and run one at a time   *)
(* (each takes &mut self); start and run are left at their await points.   *)
(* The tasks start spawns run on the multi-thread runtime, beside the      *)
(* caller.                                                                 *)
(***************************************************************************)
\* configurations start is called with: both values of each of the three
\* options the command frames depend on
StartConfigs ==
    { [DongleConfig_default EXCEPT !.wifi_type = c[1], !.mic_type = c[2],
                                   !.audio_transfer_mode = c[3]] :
        c \in { <<"Ghz5", "Os", FALSE>>, <<"Ghz2_4", "Box", TRUE>> } }

\* clock readings during a session
SessionClock == { <<0, 410, 16502, 12288>> }

\* what nusb::list_devices() can yield: nothing, the dongle under either
\* product id
Listings ==
    { {}, { KNOWN_DEVICES[1] }, { KNOWN_DEVICES[2] } }

\* messages the application sends through its clone of the sender
AppMessages == { SendTouch(Finite(1, 2), Finite(1, 2), "Move") }

Idle == [at |-> "idle"]
Panicked == [at |-> "panicked"]
Unit == Ok(<<>>)

\* Sender::send(..).await goes through while the channel has room
HasRoom == Len(queue) < MaxQueued

\* the spawns of start so far
Spawned == { id \in DOMAIN tasks : tasks[id].wifi # "unspawned" }

\* a step in which no call returns and nothing is written to the OUT
\* endpoint by the outbound loop
Silent ==
    /\ returned' = None
    /\ written' = None

\* initialize(), from one listing of the attached devices on:
\* list_devices()? fails, or no device passes the filter and the loop lists
\* again, or the device is opened and claimed, or a USB call on it fails
poll(devices) ==
    \/ /\ pc' = Idle
       /\ returned' = [call |-> "initialize", value |-> Err("UsbError")]
       /\ driver' = driver
    \/ /\ find_dongle(devices) = None
       /\ pc' = [at |-> "initialize", listed |-> devices]
       /\ returned' = None
       /\ driver' = driver
    \/ /\ find_dongle(devices) # None
       /\ pc' = Idle
       /\ returned' = [call |-> "initialize", value |-> Unit]
       /\ driver' = [driver EXCEPT !.interface = Some("Interface"),
                                   !.device = Some("Device"),
                                   !.in_ep = Some("in_endpoint"),
                                   !.out_ep = Some("out_endpoint")]

\* initialize() is entered
initialize ==
    /\ pc = Idle
    /\ pc' = [at |-> "initialize", listed |-> {}]
    /\ Silent
    /\ UNCHANGED <<driver, handshake, queue, tasks, closed>>
    /\ UNCHANGED <<codec_vars, inbound_vars>>

\* initialize(): the devices are listed, before the loop and in it
initialize_poll(devices) ==
    /\ pc.at = "initialize"
    /\ poll(devices)
    /\ written' = None
    /\ UNCHANGED <<handshake, queue, tasks, closed>>
    /\ UNCHANGED <<codec_vars, inbound_vars>>

\* start(config) is entered: the error count is reset
start(config) ==
    /\ pc = Idle
    /\ Cardinality(Spawned) < MaxStarts
    /\ driver' = [driver EXCEPT !.error_count = 0]
    /\ pc' = [at |-> "start", config |-> config]
    /\ handshake' = <<>>
    /\ Silent
    /\ UNCHANGED <<queue, tasks, closed>>
    /\ UNCHANGED <<codec_vars, inbound_vars>>

\* a plausible slip: a failed write is passed over, nothing is written for
\* that message and start goes on with the next one
start_send_goes_on(now) ==
    /\ pc.at = "start"
    /\ Len(handshake) < Len(StartFrames(pc.config))
    /\ LET m == at_clock(StartFrames(pc.config)[Len(handshake) + 1], now)
       IN  \E r \in send(driver) :
               CASE r = Panic ->
                       /\ pc' = Panicked
                       /\ returned' = None
                       /\ UNCHANGED handshake
                 [] r.tag = "Ok" ->
                       /\ handshake' = Append(handshake, serialize(m))
                       /\ returned' = None
                       /\ UNCHANGED pc
                 [] r.tag = "Err" ->
                       /\ handshake' = Append(handshake, <<>>)
                       /\ returned' = None
                       /\ UNCHANGED pc
    /\ written' = None
    /\ UNCHANGED <<driver, queue, tasks, closed>>
    /\ UNCHANGED <<codec_vars, inbound_vars>>

\* self.send(..).await? of the next handshake message: the frame is written
\* and start goes on, or the transfer fails and start returns the error, or
\* send panics
start_send(now) ==
    /\ pc.at = "start"
    /\ Len(handshake) < Len(StartFrames(pc.config))
    /\ LET m == at_clock(StartFrames(pc.config)[Len(handshake) + 1], now)
       IN  \E r \in send(driver) :
               CASE r = Panic ->
                       /\ pc' = Panicked
                       /\ returned' = None
                       /\ UNCHANGED handshake
                 [] r.tag = "Ok" ->
                       /\ handshake' = Append(handshake, serialize(m))
                       /\ returned' = None
                       /\ UNCHANGED pc
                 [] r.tag = "Err" ->
                       /\ pc' = Idle
                       /\ returned' = [call |-> "start", value |-> r]
                       /\ handshake' = <<>>
    /\ written' = None
    /\ UNCHANGED <<driver, queue, tasks, closed>>
    /\ UNCHANGED <<codec_vars, inbound_vars>>

\* a plausible slip: the tasks are spawned, and start returns, before the
\* handshake is complete
start_spawn_early ==
    /\ pc.at = "start"
    /\ Len(handshake) <= Len(StartFrames(pc.config))
    /\ LET id == Cardinality(Spawned) + 1
       IN  /\ tasks' = [tasks EXCEPT ![id] = [wifi |-> "sleeping",
                                               heartbeat |-> "tick"]]
           /\ driver' = [driver EXCEPT !.heartbeat_handle = Some(id)]
    /\ pc' = Idle
    /\ returned' = [call |-> "start", value |-> Unit]
    /\ written' = None
    /\ handshake' = <<>>
    /\ closed' = FALSE
    /\ UNCHANGED queue
    /\ UNCHANGED <<codec_vars, inbound_vars>>

\* the end of start: the WifiConnect task and the heartbeat task are
\* spawned, the handle of the heartbeat task replaces the stored one, and
\* start returns Ok
start_spawn ==
    /\ pc.at = "start"
    /\ Len(handshake) = Len(StartFrames(pc.config))
    /\ LET id == Cardinality(Spawned) + 1
       IN  /\ tasks' = [tasks EXCEPT ![id] = [wifi |-> "sleeping",
                                               heartbeat |-> "tick"]]
           /\ driver' = [driver EXCEPT !.heartbeat_handle = Some(id)]
    /\ pc' = Idle
    /\ returned' = [call |-> "start", value |-> Unit]
    /\ written' = None
    /\ handshake' = <<>>
    /\ closed' = FALSE
    /\ UNCHANGED queue
    /\ UNCHANGED <<codec_vars, inbound_vars>>

\* what close returns, with whether the session was closed already when
\* it was called
Closed(value) == [call |-> "close", value |-> value, again |-> closed]

\* a plausible slip: a session that is closed already is reported as an error
close_rejects_closed ==
    /\ pc = Idle
    /\ IF driver.heartbeat_handle.tag = "Some"
       THEN LET id == driver.heartbeat_handle.value
            IN  \E state \in abort(tasks[id].heartbeat) :
                    tasks' = [tasks EXCEPT ![id].heartbeat = state]
       ELSE tasks' = tasks
    /\ driver' = [driver EXCEPT !.heartbeat_handle = None, !.device = None,
                                !.in_ep = None, !.out_ep = None]
    /\ returned' = Closed(IF closed THEN Err("Closed") ELSE Unit)
    /\ written' = None
    /\ closed' = TRUE
    /\ UNCHANGED <<pc, handshake, queue>>
    /\ UNCHANGED <<codec_vars, inbound_vars>>

\* close(): the stored heartbeat handle is taken and aborted; device and
\* endpoint addresses are dropped
close ==
    /\ pc = Idle
    /\ IF driver.heartbeat_handle.tag = "Some"
       THEN LET id == driver.heartbeat_handle.value
            IN  \E state \in abort(tasks[id].heartbeat) :
                    tasks' = [tasks EXCEPT ![id].heartbeat = state]
       ELSE tasks' = tasks
    /\ driver' = [driver EXCEPT !.heartbeat_handle = None, !.device = None,
                                !.in_ep = None, !.out_ep = None]
    /\ returned' = Closed(Unit)
    /\ written' = None
    /\ closed' = TRUE
    /\ UNCHANGED <<pc, handshake, queue>>
    /\ UNCHANGED <<codec_vars, inbound_vars>>

\* a plausible slip: the read loop runs inside run, which never reaches the
\* outbound loop
after_read_loop_inline == [at |-> "read_loop"]

\* where run is once self.read_loop(..).await has returned: read_loop
\* returns as soon as it has spawned the read task, and run waits on the
\* queue
after_read_loop == [at |-> "run_recv"]

\* run() is entered: read_loop unwraps the IN endpoint and the interface
\* and spawns the read task with clones of them, then the outbound loop
\* waits on the queue.  Every call spawns a read task; the tasks run the
\* same loop, and one of them is followed.
run ==
    /\ pc = Idle
    /\ IF driver.in_ep = None \/ driver.interface = None
       THEN /\ pc' = Panicked
            /\ UNCHANGED reader
       ELSE /\ pc' = after_read_loop
            /\ reader' = IF reader.at \in {"off", "dead"} THEN ReaderStart
                         ELSE reader
    /\ Silent
    /\ UNCHANGED <<driver, handshake, queue, tasks, closed>>
    /\ UNCHANGED <<channel, receivers>>
    /\ UNCHANGED codec_vars

\* a plausible slip: the newest queued message is taken first
recv_newest_first(q) ==
    [message |-> q[Len(q)], rest |-> SubSeq(q, 1, Len(q) - 1)]

\* mpsc Receiver::recv with a message queued: the oldest message, and what
\* stays queued
recv(q) == [message |-> Head(q), rest |-> Tail(q)]

\* self.message_rx.recv().await returns the oldest message
run_recv ==
    /\ pc.at = "run_recv"
    /\ queue # <<>>
    /\ pc' = [at |-> "run_send", message |-> recv(queue).message]
    /\ queue' = recv(queue).rest
    /\ Silent
    /\ UNCHANGED <<driver, handshake, tasks, closed>>
    /\ UNCHANGED <<codec_vars, inbound_vars>>

\* a plausible slip: a failed write ends the outbound loop
after_send_error_ends_loop == Idle

\* the Err arm of the outbound loop: the error is logged, the message is
\* gone and the loop waits for the next one
after_send_error == [at |-> "run_recv"]

\* self.send(message).await in the outbound loop: an error is logged and
\* the loop goes on
run_send(now) ==
    /\ pc.at = "run_send"
    /\ \E r \in send(driver) :
           CASE r = Panic ->
                   /\ pc' = Panicked
                   /\ written' = None
             [] r.tag = "Ok" ->
                   /\ pc' = [at |-> "run_recv"]
                   /\ written' = Some(serialize(at_clock(pc.message, now)))
             [] r.tag = "Err" ->
                   /\ pc' = after_send_error
                   /\ written' = r
    /\ returned' = None
    /\ UNCHANGED <<driver, handshake, queue, tasks, closed>>
    /\ UNCHANGED <<codec_vars, inbound_vars>>

\* the caller drops the future of run at one of its await points; run
\* itself never returns, the session keeps a sender of the queue
run_dropped ==
    /\ pc.at \in {"run_recv", "run_send"}
    /\ pc' = Idle
    /\ returned' = [call |-> "run", value |-> [tag |-> "Dropped"]]
    /\ written' = None
    /\ UNCHANGED <<driver, handshake, queue, tasks, closed>>
    /\ UNCHANGED <<codec_vars, inbound_vars>>

\* the application sends a message through its clone of the sender; on a
\* full queue it waits
app_send(m) ==
    /\ HasRoom
    /\ queue' = Append(queue, m)
    /\ Silent
    /\ UNCHANGED <<driver, pc, handshake, tasks, closed>>
    /\ UNCHANGED <<codec_vars, inbound_vars>>

\* the task spawned for WifiConnect: after the sleep it sends once; a full
\* queue suspends it in the send
wifi_connect(id) ==
    /\ \/ tasks[id].wifi = "sleeping"
       \/ tasks[id].wifi = "sending" /\ HasRoom
    /\ IF HasRoom
       THEN /\ queue' = Append(queue, SendCommand("WifiConnect"))
            /\ tasks' = [tasks EXCEPT ![id].wifi = "done"]
       ELSE /\ tasks' = [tasks EXCEPT ![id].wifi = "sending"]
            /\ UNCHANGED queue
    /\ Silent
    /\ UNCHANGED <<driver, pc, handshake, closed>>
    /\ UNCHANGED <<codec_vars, inbound_vars>>

\* the heartbeat task: interval.tick().await completes
heartbeat_tick(id) ==
    /\ tasks[id].heartbeat = "tick"
    /\ tasks' = [tasks EXCEPT ![id].heartbeat = "woken"]
    /\ Silent
    /\ UNCHANGED <<driver, pc, handshake, queue, closed>>
    /\ UNCHANGED <<codec_vars, inbound_vars>>

\* the heartbeat task: tx.send(Box::new(HeartBeat)).await, then the next
\* tick is awaited; a full queue suspends the task in the send.  An aborted
\* task stops at the await it reaches.
heartbeat_send(id) ==
    LET state == tasks[id].heartbeat
    IN  /\ \/ state \in {"woken", "woken_aborted"}
           \/ state = "sending" /\ HasRoom
        /\ IF HasRoom
           THEN /\ queue' = Append(queue, HeartBeat)
                /\ tasks' = [tasks EXCEPT ![id].heartbeat =
                                IF state = "woken_aborted" THEN "cancelled"
                                ELSE "tick"]
           ELSE /\ tasks' = [tasks EXCEPT ![id].heartbeat =
                                IF state = "woken_aborted" THEN "cancelled"
                                ELSE "sending"]
                /\ UNCHANGED queue
        /\ Silent
        /\ UNCHANGED <<driver, pc, handshake, closed>>
        /\ UNCHANGED <<codec_vars, inbound_vars>>

InitializePoll ==
    pc.at = "initialize" /\ \E devices \in Listings : initialize_poll(devices)
Start == pc = Idle /\ \E config \in StartConfigs : start(config)
StartSend == pc.at = "start" /\ \E now \in SessionClock : start_send(now)
RunSend == pc.at = "run_send" /\ \E now \in SessionClock : run_send(now)
AppSend == HasRoom /\ \E m \in AppMessages : app_send(m)
WifiConnectTask == \E id \in Spawned : wifi_connect(id)
HeartbeatTick == \E id \in Spawned : heartbeat_tick(id)
HeartbeatSend == \E id \in Spawned : heartbeat_send(id)

DriverNext ==
    \/ initialize
    \/ InitializePoll
    \/ Start
    \/ StartSend
    \/ start_spawn
    \/ close
    \/ run
    \/ run_recv
    \/ RunSend
    \/ run_dropped
    \/ AppSend
    \/ WifiConnectTask
    \/ HeartbeatTick
    \/ HeartbeatSend

DriverSpec == Init /\ [][DriverNext]_vars

\* The runtime keeps scheduling the spawned tasks and the outbound loop, and
\* a transfer that was issued ends; what the caller calls, and when, is up
\* to the caller.
DriverFairSpec ==
    /\ DriverSpec
    /\ \A id \in 1..MaxStarts :
           /\ WF_vars(wifi_connect(id))
           /\ WF_vars(heartbeat_tick(id))
           /\ WF_vars(heartbeat_send(id))
    /\ WF_vars(run_recv)
    /\ WF_vars(RunSend)

(***************************************************************************)
(* The inbound loop: the task read_loop spawns, left at its two awaits,    *)
(* and the receivers of the broadcast channel.  data, header, extra_data   *)
(* and message are the locals of the loop.                                 *)
(***************************************************************************)
\* frames of the device: type byte and payload
InboundFrames ==
    { <<4, <<>>>>, <<8, Counting(4)>>, <<6, Descending(25)>>, <<6, <<>>>> }

\* what the first bulk_in of an iteration can return: an error, the header
\* of a frame, a header with a wrong magic or a wrong check field, fewer
\* than 16 bytes
HeaderReads ==
    { Err("TransferError") }
        \cup { Ok(to_bytes(MessageHeader(u32(Len(f[2])),
                                         MessageType_from(f[1])))) :
                 f \in InboundFrames }
        \cup { Ok(write_u32(u32(0)) \o write_u32(u32(0)) \o write_u32(u32(4))
                    \o write_u32(not_u32(u32(4)))),
               Ok(write_u32(MAGIC) \o write_u32(u32(4)) \o write_u32(u32(8))
                    \o write_u32(u32(8))),
               Ok(Counting(15)) }

\* what the second bulk_in can return for a request of n bytes: an error,
\* the payload of a frame, or fewer bytes
PayloadReads(n) ==
    { Err("TransferError") }
        \cup { Ok(f[2]) : f \in { g \in InboundFrames : u32(Len(g[2])) = n } }
        \cup { Ok(Counting(3)) }

\* from `if header.msg_type == VideoData` to `tx.send(*message).unwrap()`:
\* the payload of a VideoData frame is unwrapped, the message is built and
\* unwrapped, and it is sent on the broadcast channel, which fails without
\* a receiver; a panic ends the task
dispatch(h, extra, result) ==
    /\ extra_data' = extra
    /\ \E r \in IF h.msg_type = Named("VideoData") /\ extra = None
                THEN { Panic }
                ELSE to_message(h, extra) :
           /\ message' = r
           /\ IF r.tag = "Ok" /\ receiver_count > 0
              THEN /\ channel' = broadcast_send(channel, r.value)
                   /\ receivers' = [rx \in Receivers |->
                                       after_send(receivers[rx])]
                   /\ reader' = [ReaderStart EXCEPT !.transfer = result]
              ELSE /\ reader' = [at |-> "dead", request |-> u32(0),
                                 transfer |-> result]
                   /\ UNCHANGED <<channel, receivers>>

\* a plausible slip: a header that does not decode ends the loop
next_transfer_error_ends_loop(decoded) ==
    IF decoded.tag = "Err"
    THEN [at |-> "dead", request |-> u32(0), transfer |-> "Ok"]
    ELSE [at |-> "payload_read", request |-> decoded.value.length,
          transfer |-> "Ok"]

\* the transfer the loop issues after a header read that is not followed
\* by a dispatch: `continue` after a header that does not decode, the
\* payload read of header.length bytes after one that does
next_transfer(decoded) ==
    IF decoded.tag = "Err"
    THEN [ReaderStart EXCEPT !.transfer = "Ok"]
    ELSE [at |-> "payload_read", request |-> decoded.value.length,
          transfer |-> "Ok"]

\* a plausible slip: a transfer error on the header read ends the loop
after_transfer_error_ends_loop ==
    [at |-> "dead", request |-> u32(0), transfer |-> "Err"]

\* the Err arm of the header read: the error is logged and the loop goes
\* round to the next header read
after_transfer_error == [ReaderStart EXCEPT !.transfer = "Err"]

\* the first bulk_in of an iteration completes: a transfer error and a
\* header that does not decode are logged and the loop reads the next
\* header; a header with a length asks for the payload; one without is
\* dispatched
read_header(result) ==
    /\ reader.at = "header_read"
    /\ IF result.tag = "Err"
       THEN /\ data' = <<>>
            /\ header' = None
            /\ extra_data' = None
            /\ message' = None
            /\ reader' = after_transfer_error
            /\ UNCHANGED <<channel, receivers>>
       ELSE /\ data' = result.value
            /\ header' = from_bytes(result.value)
            /\ IF header'.tag = "Err" \/ header'.value.length # u32(0)
               THEN /\ extra_data' = None
                    /\ message' = None
                    /\ reader' = next_transfer(header')
                    /\ UNCHANGED <<channel, receivers>>
               ELSE dispatch(header'.value, None, "Ok")
    /\ UNCHANGED <<src, wire>>
    /\ UNCHANGED session_vars

\* the second bulk_in completes: its data, or None after an error, goes to
\* the dispatch
read_payload(result) ==
    /\ reader.at = "payload_read"
    /\ dispatch(header.value,
                IF result.tag = "Err" THEN None ELSE Some(result.value),
                result.tag)
    /\ UNCHANGED <<src, wire, data, header>>
    /\ UNCHANGED session_vars

\* tx.subscribe()
Subscribe(r) ==
    /\ ~receivers[r].subscribed
    /\ receivers' = [receivers EXCEPT ![r] = subscribe]
    /\ UNCHANGED <<reader, channel>>
    /\ UNCHANGED <<codec_vars, session_vars>>

\* rx.try_recv() with something to report: Err(Lagged) once after messages
\* were lost, then the oldest message the channel retains
try_recv(r) ==
    /\ receivers[r].subscribed
    /\ receivers[r].lagged \/ receivers[r].unread > 0
    /\ receivers' = [receivers EXCEPT ![r] =
                        IF @.lagged THEN [@ EXCEPT !.lagged = FALSE]
                        ELSE [@ EXCEPT !.unread = @ - 1]]
    /\ UNCHANGED <<reader, channel>>
    /\ UNCHANGED <<codec_vars, session_vars>>

ReadHeader ==
    reader.at = "header_read" /\ \E result \in HeaderReads : read_header(result)
ReadPayload ==
    /\ reader.at = "payload_read"
    /\ \E result \in PayloadReads(reader.request) : read_payload(result)
SubscribeReceiver == \E r \in Receivers : Subscribe(r)
TryRecv == \E r \in Receivers : try_recv(r)

InboundNext ==
    \/ initialize
    \/ InitializePoll
    \/ run
    \/ run_dropped
    \/ close
    \/ ReadHeader
    \/ ReadPayload
    \/ SubscribeReceiver
    \/ TryRecv

InboundSpec == Init /\ [][InboundNext]_vars

(***************************************************************************)
(* Properties of the frame header codec.                                   *)
(***************************************************************************)
\* the wire bytes of the magic 0x55AA55AA
MagicBytes == <<170, 85, 170, 85>>

\* the type a tag byte stands for, read off the enum declaration
NamedTags == { MessageTypeTable[i][2] : i \in DOMAIN MessageTypeTable }
Resolve(byte) ==
    IF byte \in NamedTags
    THEN Named(MessageTypeTable[CHOOSE i \in DOMAIN MessageTypeTable :
                                    MessageTypeTable[i][2] = byte][1])
    ELSE Unknown(byte)

\* from_bytes has been applied to the whole 16-byte header of the frame
Decoded == header # None /\ Len(data) = HEADER_SIZE

\* C1: header round-trip.  Decoding the 16 bytes that to_bytes wrote for a
\* header {length, MessageType::from(tag)} succeeds and returns the same
\* length and the same message type, for every tag 0..255 and for lengths
\* over the whole 32-bit range.
C1_HeaderRoundTrip ==
    (src.tag = "Header" /\ Decoded) => header = Ok(src.value)

C1_Witness ==
    /\ src.tag = "Header"
    /\ src.value = MessageHeader(<<65535, 65535>>, Unknown(66))
    /\ header = Ok(src.value)

\* C2: from_bytes succeeds if and only if the buffer has exactly 16 bytes,
\* its first four bytes are the little-endian magic and bytes 12..15 are the
\* bitwise complement of bytes 8..11; on success the length is the
\* little-endian value of bytes 4..7 and the type is the one the type
\* field's low byte stands for.
C2_FromBytesIff ==
    header # None =>
        LET good ==
                /\ Len(data) = 16
                /\ SubSeq(data, 1, 4) = MagicBytes
                /\ \A k \in 13..16 : data[k] = 255 - data[k - 4]
        IN  /\ (header.tag = "Ok") <=> good
            /\ good =>
                 /\ header.value.length =
                        <<data[7] + 256 * data[8], data[5] + 256 * data[6]>>
                 /\ header.value.msg_type = Resolve(data[9])

\* a header whose type field has bits set above the low byte is accepted
C2_Witness ==
    /\ header.tag = "Ok"
    /\ src = None
    /\ data[10] = 1
    /\ header.value.msg_type = Named("Command")

\* C3: rejection kinds.  A buffer of another length than 16 fails with
\* InvalidSize; a 16-byte buffer with a wrong magic fails with InvalidMagic
\* whatever the other twelve bytes are; a header that is valid but for one
\* inverted bit of the check field fails with InvalidTypeCheck, expected the
\* complement of the type field, actual the received check field.
C3_RejectionKinds ==
    header # None =>
        /\ Len(data) # 16 => header = Err(InvalidSize(Len(data)))
        /\ (Len(data) = 16 /\ SubSeq(data, 1, 4) # MagicBytes) =>
               /\ header.tag = "Err"
               /\ header.error.kind = "InvalidMagic"
        /\ ( /\ Len(data) = 16
             /\ SubSeq(data, 1, 4) = MagicBytes
             /\ \E k \in 0..31 :
                    read_u32(data, 12) =
                        flip_bit(not_u32(read_u32(data, 8)), k) ) =>
               header = Err(InvalidTypeCheck(not_u32(read_u32(data, 8)),
                                             read_u32(data, 12)))

\* the magic and the check field are both wrong, the magic is reported
C3_Witness ==
    /\ header.tag = "Err"
    /\ header.error.kind = "InvalidMagic"
    /\ Len(data) = 16
    /\ read_u32(data, 12) # not_u32(read_u32(data, 8))

(***************************************************************************)
(* Properties of the registries.                                           *)
(***************************************************************************)
\* C4: message-type registry round-trip.  For every byte b the type field
\* written for MessageType::from(b) is b; a byte that is not a named tag
\* gives Unknown(b); a named type written to the wire and decoded again is
\* the same type.
C4_MessageTypeRoundTrip ==
    src.tag = "Header" =>
        /\ read_u32(wire, 8) = u32(src.byte)
        /\ src.byte \notin NamedTags => src.value.msg_type = Unknown(src.byte)
        /\ src.byte \in NamedTags => src.value.msg_type \in NamedMessageTypes
        /\ (src.value.msg_type \in NamedMessageTypes /\ Decoded) =>
               /\ header.tag = "Ok"
               /\ header.value.msg_type = src.value.msg_type

C4_Witness ==
    /\ src.tag = "Header"
    /\ src.byte = 11
    /\ src.value.msg_type = Unknown(11)
    /\ wire[9] = 11
    /\ header.tag = "Ok"

\* the code is the discriminant of a named command
IsDiscriminant(code) ==
    \E i \in DOMAIN CommandTable : code = u32(CommandTable[i][2])

\* C5: command registry round-trip.  A code that is the discriminant of a
\* named command maps to that command, whose encoding is the code again;
\* every other 32-bit code maps to Invalid.
C5_CommandRoundTrip ==
    src.tag = "New" =>
        /\ \A i \in DOMAIN CommandTable :
               src.code = u32(CommandTable[i][2]) =>
                   /\ src.value.value = CommandTable[i][1]
                   /\ read_u32(wire, 16) = src.code
        /\ ~IsDiscriminant(src.code) => src.value.value = "Invalid"

\* 0x00010001: the low half is a discriminant, the code is not
C5_Witness ==
    /\ src.tag = "New"
    /\ src.code = <<1, 1>>
    /\ src.value.value = "Invalid"

(***************************************************************************)
(* Properties of the dispatcher.                                           *)
(***************************************************************************)
\* to_message has been applied to the decoded header
Dispatched == header.tag = "Ok" /\ message # None

\* the payload handed to to_message is what follows the header on the wire
WholePayload == extra_data = Some(SubSeq(wire, HEADER_SIZE + 1, Len(wire)))

\* C6: command end-to-end.  The frame SendCommand{value: v}.serialize(),
\* decoded by from_bytes on its first 16 bytes and dispatched with its last
\* 4 bytes, is Message::ReadCommand with value v.
C6_CommandEndToEnd ==
    ( /\ src.tag \in {"Sendable", "New"}
      /\ src.value.kind = "SendCommand"
      /\ Dispatched
      /\ WholePayload ) =>
        /\ Len(wire) = 20
        /\ message =
               Ok([kind |-> "ReadCommand",
                   body |-> [header |-> MessageHeader(u32(4), Named("Command")),
                             value |-> src.value.value]])

C6_Witness ==
    /\ src.tag = "Sendable"
    /\ src.value = SendCommand("StartRecordAudio")
    /\ SubSeq(wire, 17, 20) = <<1, 0, 0, 0>>
    /\ message.tag = "Ok"
    /\ message.value.kind = "ReadCommand"
    /\ message.value.body.value = "StartRecordAudio"

\* C7: unknown-tag dispatch never fails.  A tag that is not in the registry
\* resolves to Unknown(tag), and dispatching it, with or without a payload,
\* returns Ok(ReadUnknown) carrying the input header.
C7_UnknownNeverFails ==
    (header.tag = "Ok" /\ data[9] \notin NamedTags) =>
        /\ header.value.msg_type = Unknown(data[9])
        /\ message # None =>
               message = Ok([kind |-> "ReadUnknown",
                             body |-> [header |-> header.value]])

C7_Witness ==
    /\ Dispatched
    /\ header.value.msg_type = Unknown(66)
    /\ extra_data.tag = "Some"
    /\ Len(extra_data.value) = 5
    /\ message.tag = "Ok"
    /\ message.value.kind = "ReadUnknown"

\* C8: tag-only frames.  An Unplugged header of length 0 dispatched without
\* a payload is ReadUnplugged carrying that header; a HeartBeat header
\* dispatched without a payload is ReadHeartBeat.
C8_TagOnlyFrames ==
    (Dispatched /\ extra_data = None) =>
        /\ ( /\ header.value.msg_type = Named("Unplugged")
             /\ header.value.length = u32(0) ) =>
               message = Ok([kind |-> "ReadUnplugged",
                             body |-> [header |-> header.value]])
        /\ header.value.msg_type = Named("HeartBeat") =>
               message = Ok([kind |-> "ReadHeartBeat", body |-> HeartBeat])

C8_Witness ==
    /\ Dispatched
    /\ extra_data = None
    /\ header.value = MessageHeader(u32(0), Named("Unplugged"))
    /\ message.tag = "Ok"
    /\ message.value.kind = "ReadUnplugged"

\* the number of bytes the fixed field layout of a struct-shaped tag needs
FixedLayout(name) ==
    CASE name = "Open" -> 28
      [] name = "Plugged" -> 4
      [] name = "Phase" -> 4
      [] name = "ManufacturerInfo" -> 8
      [] name = "Command" -> 4

\* C9: struct-shaped payloads fail as a value.  For the tags Open, Plugged,
\* Phase, ManufacturerInfo and Command, dispatching a payload shorter than
\* the tag's fixed field layout returns a decode failure: the call neither
\* aborts nor returns a message.
C9_ShortStructFailsAsValue ==
    ( /\ Dispatched
      /\ header.value.msg_type.name \in
             {"Open", "Plugged", "Phase", "ManufacturerInfo", "Command"}
      /\ extra_data.tag = "Some"
      /\ Len(extra_data.value) < FixedLayout(header.value.msg_type.name) ) =>
        message.tag = "Err"

\* C10: AudioData tail dispatch.  For a payload of 12 + t bytes the decode
\* returns an AudioData in which t = 1 populates only command, t = 4 only
\* volume_duration, and any other t only data, with t div 2 samples; at most
\* one of the three is populated.
C10_AudioTailDispatch ==
    ( /\ Dispatched
      /\ header.value.msg_type = Named("AudioData")
      /\ extra_data.tag = "Some"
      /\ Len(extra_data.value) >= 12 ) =>
        /\ message.tag = "Ok"
        /\ message.value.kind = "ReadAudioData"
        /\ LET a == message.value.body
               t == Len(extra_data.value) - 12
               populated ==
                   { f \in {"command", "volume_duration", "data"} :
                       a[f].tag = "Some" }
           IN  /\ t = 1 => populated = {"command"}
               /\ t = 4 => populated = {"volume_duration"}
               /\ t \notin {1, 4} =>
                      /\ populated = {"data"}
                      /\ Len(a.data.value) = t \div 2
               /\ Cardinality(populated) <= 1

\* the 13 variants of AudioCommand
AudioCommands == { AudioCommand[i] : i \in DOMAIN AudioCommand }

\* C11: AudioData command validation.  A 13-byte AudioData payload whose
\* last byte is not one of the discriminants 1..13 is answered with a decode
\* error, and the command of every decoded AudioData is one of the 13
\* variants.
C11_AudioCommandValidated ==
    ( /\ Dispatched
      /\ header.value.msg_type = Named("AudioData")
      /\ extra_data.tag = "Some"
      /\ Len(extra_data.value) = 13 ) =>
        /\ extra_data.value[13] \notin 1..13 => message.tag = "Err"
        /\ ( /\ message.tag = "Ok"
             /\ message.value.body.command.tag = "Some" ) =>
               message.value.body.command.value \in AudioCommands

\* the little-endian u32 held by the four bytes of buf that follow offset k
LittleEndian(buf, k) ==
    <<buf[k + 3] + 256 * buf[k + 4], buf[k + 1] + 256 * buf[k + 2]>>

\* C12: VideoData split.  For a payload of 20 + N bytes the decoded
\* VideoData has width, height, flags, length and unknown equal to the five
\* little-endian u32 values of the first 20 bytes, and its data buffer is
\* the remaining N bytes.
C12_VideoDataSplit ==
    ( /\ Dispatched
      /\ header.value.msg_type = Named("VideoData")
      /\ extra_data.tag = "Some"
      /\ Len(extra_data.value) >= 20 ) =>
        LET d == extra_data.value
            N == Len(d) - 20
        IN  /\ message.tag = "Ok"
            /\ message.value.kind = "ReadVideoData"
            /\ LET v == message.value.body
               IN  /\ v.header = header.value
                   /\ v.width = LittleEndian(d, 0)
                   /\ v.height = LittleEndian(d, 4)
                   /\ v.flags = LittleEndian(d, 8)
                   /\ v.length = LittleEndian(d, 12)
                   /\ v.unknown = LittleEndian(d, 16)
                   /\ Len(v.data) = N
                   /\ \A i \in 1..N : v.data[i] = d[20 + i]

\* a 25-byte payload: five header words and five bytes of frame data
C12_Witness ==
    /\ Dispatched
    /\ header.value.msg_type = Named("VideoData")
    /\ extra_data = Some(Descending(25))
    /\ message.tag = "Ok"
    /\ message.value.body.width = <<64765, 65279>>
    /\ message.value.body.data = <<235, 234, 233, 232, 231>>

\* the payload is UTF-8 text that is JSON of one of the two BoxSettings
\* shapes
MatchesBoxSettings(d) ==
    /\ from_utf8(d).tag = "Ok"
    /\ json_BoxSettings(from_utf8(d).value).tag = "Ok"

\* C13: JSON payloads degrade gracefully.  Dispatching a BoxSettings frame
\* whose payload is not valid UTF-8, or is not JSON of either known shape,
\* does not abort: a message is still produced for the frame.
C13_BoxSettingsDegrades ==
    ( /\ Dispatched
      /\ header.value.msg_type = Named("BoxSettings")
      /\ extra_data.tag = "Some"
      /\ ~MatchesBoxSettings(extra_data.value) ) =>
        message.tag = "Ok"

\* the text is base64 of the bytes: every group of four characters holds
\* three bytes, fewer in a padded last group
Base64Of(text, bytes) ==
    LET n == Len(bytes)
        value(c) ==
            IF c \in 65..90 THEN c - 65
            ELSE IF c \in 97..122 THEN c - 71
            ELSE IF c \in 48..57 THEN c + 4
            ELSE IF c = 43 THEN 62
            ELSE IF c = 47 THEN 63 ELSE 0
        sextet(k) == value(text[k])
    IN  /\ Len(text) = 4 * ((n + 2) \div 3)
        /\ \A i \in 1..n :
               LET g == 4 * ((i - 1) \div 3)
                   j == (i - 1) % 3
               IN  bytes[i] =
                       IF j = 0
                       THEN sextet(g + 1) * 4 + sextet(g + 2) \div 16
                       ELSE IF j = 1
                       THEN (sextet(g + 2) % 16) * 16 + sextet(g + 3) \div 4
                       ELSE (sextet(g + 3) % 4) * 64 + sextet(g + 4)
        /\ n % 3 = 1 => SubSeq(text, Len(text) - 1, Len(text)) = <<61, 61>>
        /\ n % 3 = 2 => text[Len(text)] = 61 /\ text[Len(text) - 1] # 61
        /\ n % 3 = 0 => \A k \in 1..Len(text) : text[k] # 61

\* C14: MediaData decode is total.  For every payload of at least 4 bytes a
\* MediaData message carrying the header is returned: type 1 with a Data
\* payload when bytes[4..len-1] parse as the now-playing JSON and with no
\* payload when they do not, type 3 with an AlbumCover payload over
\* bytes[4..], any other type with no payload.
C14_MediaDataTotal ==
    ( /\ Dispatched
      /\ header.value.msg_type = Named("MediaData")
      /\ extra_data.tag = "Some"
      /\ Len(extra_data.value) >= 4 ) =>
        LET d == extra_data.value
            type_val == LittleEndian(d, 0)
            media == json_MediaInfo(SubSeq(d, 5, Len(d) - 1))
        IN  /\ message.tag = "Ok"
            /\ message.value.kind = "ReadMediaData"
            /\ message.value.body.header = header.value
            /\ LET payload == message.value.body.payload
               IN  /\ (type_val = u32(1) /\ media.tag = "Ok") =>
                          payload = Some([kind |-> "Data",
                                          media |-> media.value])
                   /\ (type_val = u32(1) /\ media.tag = "Err") =>
                          payload = None
                   /\ type_val = u32(3) =>
                          /\ payload.tag = "Some"
                          /\ payload.value.kind = "AlbumCover"
                          /\ Base64Of(payload.value.base64_image,
                                      SubSeq(d, 5, Len(d)))
                   /\ type_val \notin {u32(1), u32(3)} => payload = None

(***************************************************************************)
(* Properties of the outbound encoders.                                    *)
(***************************************************************************)
\* a message built by the program has been serialized onto the wire
Serialized == src.tag \in {"Sendable", "New"}

\* C15: touch encoding bounds.  For every SendTouch, whatever x and y are,
\* the payload is 16 bytes: the action code (Down 14, Move 15, Up 16), an x
\* field and a y field each in 0..10000, then a zero u32; a coordinate below
\* 0 gives 0 and one above 1 gives 10000, for x and y independently.
C15_TouchEncoding ==
    (Serialized /\ src.value.kind = "SendTouch") =>
        LET m == src.value
            payload == SubSeq(wire, HEADER_SIZE + 1, Len(wire))
            field(k) == LittleEndian(payload, k)
            below(v) ==
                v.class = "NegInfinity" \/ (v.class = "Finite" /\ v.num < 0)
            above(v) ==
                v.class = "Infinity" \/ (v.class = "Finite" /\ v.num > v.den)
        IN  /\ Len(payload) = 16
            /\ m.action = "Down" => field(0) = <<0, 14>>
            /\ m.action = "Move" => field(0) = <<0, 15>>
            /\ m.action = "Up" => field(0) = <<0, 16>>
            /\ \A k \in {4, 8} : field(k)[1] = 0 /\ field(k)[2] \in 0..10000
            /\ below(m.x) => field(4) = <<0, 0>>
            /\ above(m.x) => field(4) = <<0, 10000>>
            /\ below(m.y) => field(8) = <<0, 0>>
            /\ above(m.y) => field(8) = <<0, 10000>>
            /\ field(12) = <<0, 0>>

\* x = -1/32 and y = 2: the fields are 0 and 10000
C15_Witness ==
    /\ src = [tag |-> "Sendable",
              value |-> SendTouch(Finite(0 - 1, 32), Finite(2, 1), "Up")]
    /\ SubSeq(wire, 17, 32) =
           <<16, 0, 0, 0, 0, 0, 0, 0, 16, 39, 0, 0, 0, 0, 0, 0>>

\* C16: frame serialization.  For every sendable message m, m.serialize()
\* is 16 + len(m.get_payload()) bytes, its first 16 bytes decode to the
\* header {len(payload), m.message_type()} and the bytes after them are the
\* payload; HeartBeat, SendCloseDongle and SendDisconnectPhone serialize to
\* 16 bytes with length field 0.
C16_FrameSerialization ==
    Serialized =>
        LET m == src.value
            payload == get_payload(m)
            expected == MessageHeader(u32(Len(payload)), message_type(m))
        IN  /\ Len(wire) = 16 + Len(payload)
            /\ from_bytes(SubSeq(wire, 1, 16)) = Ok(expected)
            /\ Decoded => header = Ok(expected)
            /\ SubSeq(wire, 17, Len(wire)) = payload
            /\ m.kind \in {"HeartBeat", "SendCloseDongle",
                           "SendDisconnectPhone"} =>
                   /\ Len(wire) = 16
                   /\ SubSeq(wire, 5, 8) = <<0, 0, 0, 0>>

C16_Witness ==
    /\ src = [tag |-> "Sendable", value |-> SendOpen(DongleConfig_default)]
    /\ Len(wire) = 44
    /\ header = Ok(MessageHeader(<<0, 28>>, Named("Open")))
    /\ SubSeq(wire, 17, 24) = <<32, 3, 0, 0, 128, 2, 0, 0>>

\* C17: SendFile encoding.  For every file name and every content the
\* payload is the u32 len(name) + 1, the name bytes and one NUL, the u32
\* len(content), then the content bytes: the second length field is the
\* number of content bytes that follow it.
C17_SendFileEncoding ==
    (Serialized /\ src.value.kind = "SendFile") =>
        LET m == src.value
            name == into_bytes(m.file_name)
            payload == SubSeq(wire, HEADER_SIZE + 1, Len(wire))
            after_name == 4 + Len(name) + 1
        IN  /\ Len(payload) = after_name + 4 + Len(m.content)
            /\ LittleEndian(payload, 0) = <<0, Len(name) + 1>>
            /\ SubSeq(payload, 5, 4 + Len(name)) = name
            /\ payload[after_name] = 0
            /\ LittleEndian(payload, after_name) = <<0, Len(m.content)>>
            /\ SubSeq(payload, after_name + 5, Len(payload)) = m.content


(***************************************************************************)
(* Properties of the session                                               *)
(***************************************************************************)
\* the eleven frames of the handshake for a configuration, as bytes
HandshakeOf(config, now) ==
    << serialize(SendNumber_new(config.dpi, "Dpi")),
       serialize(SendOpen(config)),
       serialize(SendBoolean_new(config.night_mode, "NightMode")),
       serialize(SendNumber_new(HandDriveType_as_u32(config.hand),
                                "HandDriveMode")),
       serialize(SendBoolean_new(TRUE, "ChargeMode")),
       serialize(SendString_new(config.box_name, "BoxName")),
       serialize(SendBoxSettings(config, None, now)),
       serialize(SendCommand("WifiEnable")),
       serialize(SendCommand(IF config.wifi_type = "Ghz5" THEN "Wifi5g"
                             ELSE "Wifi24g")),
       serialize(SendCommand(IF config.mic_type = "Box" THEN "BoxMic"
                             ELSE "Mic")),
       serialize(SendCommand(IF config.audio_transfer_mode
                             THEN "AudioTransferOn"
                             ELSE "AudioTransferOff")) >>

\* C18: start writes the frames of the handshake one after the other in the
\* order DPI file, Open, night-mode file, hand-drive file, charge-mode file
\* (true), box-name file, box-settings JSON, WifiEnable, wifi band, mic,
\* audio transfer: what it has written is always a prefix of that sequence
\* for its configuration, and it returns Ok only with all eleven written.
C18_HandshakeOrder ==
    /\ [](pc.at = "start" =>
            \E now \in SessionClock :
                /\ Len(handshake) <= Len(HandshakeOf(pc.config, now))
                /\ handshake =
                     SubSeq(HandshakeOf(pc.config, now), 1, Len(handshake)))
    /\ [][(pc.at = "start" /\ returned' = [call |-> "start", value |-> Unit])
            => \E now \in SessionClock :
                   handshake = HandshakeOf(pc.config, now)]_vars

\* all eleven frames are written, for the 2.4 GHz, box microphone and
\* audio transfer configuration
C18_Witness ==
    /\ pc.at = "start"
    /\ pc.config.wifi_type = "Ghz2_4"
    /\ Len(handshake) = 11
    /\ handshake[2] = serialize(SendOpen(pc.config))
    /\ handshake[9] = serialize(SendCommand("Wifi24g"))
    /\ handshake[10] = serialize(SendCommand("BoxMic"))
    /\ handshake[11] = serialize(SendCommand("AudioTransferOn"))


\* the step puts m at the end of the outbound queue
Enqueues(m) == queue' = Append(queue, m)

\* C19: after a successful start its WifiConnect task, still asleep when
\* start returns, enqueues WifiConnect once and only once, and its
\* heartbeat task enqueues a HeartBeat after every tick for as long as the
\* session is not closed.
C19_WifiConnectOnceHeartBeatRepeats ==
    /\ [][(pc.at = "start" /\ returned' = [call |-> "start", value |-> Unit])
            => \E id \in Spawned' \ Spawned :
                   tasks'[id].wifi = "sleeping"]_vars
    /\ [][Enqueues(SendCommand("WifiConnect"))
            => \E id \in Spawned : /\ tasks[id].wifi # "done"
                                   /\ tasks'[id].wifi = "done"]_vars
    /\ [][\A id \in 1..MaxStarts :
              tasks[id].wifi = "done" => tasks'[id].wifi = "done"]_vars
    /\ \A id \in 1..MaxStarts :
           /\ (tasks[id].wifi = "sleeping") ~> (tasks[id].wifi = "done")
           /\ (tasks[id].heartbeat = "woken")
                ~> (closed \/ tasks[id].heartbeat = "tick")


\* C20: once close has returned, and until the session is started again, no
\* step puts a HeartBeat on the outbound queue.
C20_CloseStopsHeartBeat ==
    [][closed => ~Enqueues(HeartBeat)]_vars


\* C21: close on a session that is closed already, and was not initialized
\* or started since, returns Ok and changes nothing: the fields of the
\* driver, the tasks and the queue are as the first close left them.
C21_CloseIdempotent ==
    [][(close /\ closed /\ driver.device = None)
         => /\ returned'.value = Unit
            /\ driver' = driver
            /\ tasks' = tasks
            /\ queue' = queue
            /\ closed']_vars

\* close has returned for the second time on a session that was started
C21_Witness ==
    /\ returned = [call |-> "close", value |-> Unit, again |-> TRUE]
    /\ driver.device = None
    /\ driver.heartbeat_handle = None
    /\ \E id \in Spawned : tasks[id].heartbeat = "cancelled"


\* close has returned in the last step
CloseReturned == returned # None /\ returned.call = "close"

\* C22: when close has returned the session holds no device handle, no IN
\* and no OUT endpoint address and no claimed interface.
C22_CloseReleasesHandles ==
    CloseReturned =>
        /\ driver.device = None
        /\ driver.in_ep = None
        /\ driver.out_ep = None
        /\ driver.interface = None


\* the lifecycle state of the session, read from what it holds: Running
\* with a heartbeat handle, Initialized with a device handle, Closed when
\* close has returned and nothing is held, Unopened before
Lifecycle ==
    IF driver.heartbeat_handle # None THEN "Running"
    ELSE IF driver.device # None THEN "Initialized"
    ELSE IF closed THEN "Closed"
    ELSE "Unopened"

LifecycleRank(state) ==
    CASE state = "Unopened" -> 0
      [] state = "Initialized" -> 1
      [] state = "Running" -> 2
      [] state = "Closed" -> 3

\* C23: under every sequence of initialize, start, run and close the
\* session only moves forward through Unopened, Initialized, Running,
\* Closed; a closed session stays closed.
C23_LifecycleForward ==
    [][LifecycleRank(Lifecycle') >= LifecycleRank(Lifecycle)]_vars


\* a device of KNOWN_DEVICES
Known(dev) == \E i \in DOMAIN KNOWN_DEVICES : KNOWN_DEVICES[i] = dev

\* C24: a listing that holds a device with vendor id 0x1314 and product id
\* 0x1520 or 0x1521 ends the polling of initialize: initialize lists the
\* devices again only after a listing without a known device.
C24_DeviceDiscovery ==
    pc.at = "initialize" => \A dev \in pc.listed : ~Known(dev)


(***************************************************************************)
(* Properties of the inbound loop                                          *)
(***************************************************************************)
\* C25: when the bytes of a header read fail header decoding, the step
\* publishes nothing and hands nothing to the dispatch, and the loop is at
\* a header read of 16 bytes again; a payload read is only ever pending
\* after a header that decoded.
C25_CorruptHeaderSkipped ==
    /\ [](reader.at = "payload_read" => header.tag = "Ok")
    /\ [][(reader.at = "header_read" /\ header'.tag = "Err")
            => /\ channel' = channel
               /\ extra_data' = None
               /\ message' = None
               /\ reader'.at = "header_read"
               /\ reader'.request = u32(16)]_vars

\* 16 bytes with a wrong check field were read after a message was
\* published, and the loop is at a header read
C25_Witness ==
    /\ reader.at = "header_read"
    /\ Len(data) = 16
    /\ header.tag = "Err"
    /\ header.error.kind = "InvalidTypeCheck"
    /\ channel # <<>>


\* the payload read that was pending ends in this step
PayloadReadEnds == reader.at = "payload_read" /\ reader'.at # "payload_read"

\* C26: when the payload read fails, whatever the type of the header, and
\* a receiver is subscribed, the header is dispatched with payload None,
\* the resulting message is published and the loop is at the next header
\* read.
C26_FailedPayloadReadDispatches ==
    [][(PayloadReadEnds /\ reader'.transfer = "Err" /\ receiver_count > 0)
         => /\ extra_data' = None
            /\ message'.tag = "Ok"
            /\ channel' = broadcast_send(channel, message'.value)
            /\ reader'.at = "header_read"]_vars


\* C27: a payload the loop hands to to_message has exactly header.length
\* bytes.
C27_PayloadLengthAgrees ==
    (reader.at # "off" /\ header.tag = "Ok" /\ extra_data.tag = "Some")
        => u32(Len(extra_data.value)) = header.value.length


\* a header read that publishes the message of a frame
PublishesFrame ==
    /\ ReadHeader
    /\ message'.tag = "Ok"
    /\ channel' = broadcast_send(channel, message'.value)
    /\ reader'.at = "header_read"

\* C28: a transfer error on the header read publishes nothing and does not
\* end the loop: the next transfer is a header read of 16 bytes, and with a
\* receiver subscribed a valid frame read then is decoded and published.
C28_HeaderReadErrorRetried ==
    /\ [][(ReadHeader /\ header' = None)
            => /\ channel' = channel
               /\ receivers' = receivers
               /\ message' = None
               /\ reader'.at = "header_read"
               /\ reader'.request = u32(HEADER_DATA_LENGTH)]_vars
    /\ []((reader.at = "header_read" /\ reader.transfer = "Err"
             /\ receiver_count > 0)
            => ENABLED PublishesFrame)

\* a header read has failed after a message was published
C28_Witness ==
    /\ reader.at = "header_read"
    /\ reader.transfer = "Err"
    /\ header = None
    /\ receiver_count > 0
    /\ channel # <<>>


\* C29: a subscribed receiver loses no message: from one step to the next
\* the messages it has still to receive stay as they are, lose their first
\* (it was received) or gain a last (it was published).
C29_BroadcastDeliversAll ==
    [][\A r \in Receivers :
          receivers[r].subscribed
            => \/ Pending(r)' = Pending(r)
               \/ Pending(r) # <<>> /\ Pending(r)' = Tail(Pending(r))
               \/ \E m \in { channel'[i] : i \in DOMAIN channel' } :
                      Pending(r)' = Append(Pending(r), m)]_vars


\* C30: the queue grows only at its end and shrinks only at its front, the
\* message taken from the front is the one the loop writes next, and it is
\* written, or its write fails, once: after it the loop waits for the next
\* message.
C30_OutboundFifo ==
    /\ [][\/ queue' = queue
          \/ queue' # <<>> /\ queue' = Append(queue, queue'[Len(queue')])
          \/ /\ queue # <<>>
             /\ queue' = Tail(queue)
             /\ pc.at = "run_recv"
             /\ pc'.at = "run_send"
             /\ pc'.message = Head(queue)]_vars
    /\ [][pc.at = "run_send"
            => \/ pc' = pc /\ written' = None
               \/ /\ pc'.at # "run_send"
                  /\ \/ written'.tag # "Some"
                     \/ \E now \in SessionClock :
                            written' =
                                Some(serialize(at_clock(pc.message, now)))]_vars

\* the loop has written a message while another one, accepted after it,
\* waits in the queue
C30_Witness ==
    /\ pc.at = "run_recv"
    /\ written = Some(serialize(SendCommand("WifiConnect")))
    /\ queue # <<>>
    /\ queue[1] # SendCommand("WifiConnect")


\* C31: a failed write of the outbound loop is not fatal and not retried:
\* the message is not put back into the queue, the loop waits for the next
\* message, and with one queued it takes the oldest of them next.
C31_WriteFailureNonFatal ==
    /\ [][(pc.at = "run_send" /\ written'.tag = "Err")
            => /\ pc' = [at |-> "run_recv"]
               /\ queue' = queue
               /\ returned' = None]_vars
    /\ []((pc.at = "run_recv" /\ written.tag = "Err" /\ queue # <<>>)
            => ENABLED (run_recv /\ pc'.message = Head(queue)))

\* a write has failed while a message accepted after it waits in the queue
C31_Witness ==
    /\ pc.at = "run_recv"
    /\ written = Err("UsbTransferError")
    /\ queue # <<>>


\* The two transfer loops of one call of run side by side: the read task
\* spawned by read_loop and the outbound loop of run, with the application
\* filling the queue and subscribing to the channel.
LoopsNext ==
    \/ initialize
    \/ InitializePoll
    \/ run
    \/ run_recv
    \/ RunSend
    \/ AppSend
    \/ ReadHeader
    \/ ReadPayload
    \/ SubscribeReceiver

LoopsSpec == Init /\ [][LoopsNext]_vars


\* a transfer of the read task is pending
ReadPending == reader.at \in {"header_read", "payload_read"}

\* run is in progress
Running == pc.at \notin {"idle", "panicked", "initialize", "start"}

\* the write of the outbound loop ends, with Ok or with an error, and the
\* loop waits for the next message
WriteEnds ==
    /\ pc.at = "run_send"
    /\ \E r \in send(driver) : r # Panic /\ pc' = [at |-> "run_recv"]

\* C32: the loops do not block each other: with a write of the outbound
\* loop pending the read task can complete its read (decoding and
\* publishing what it read), with a read pending the outbound loop can take
\* a queued message and complete its write, and a step of one loop leaves
\* the other loop where it was.
C32_LoopsIndependent ==
    /\ []((pc.at = "run_send" /\ reader.at = "header_read")
            => ENABLED ReadHeader)
    /\ []((pc.at = "run_send" /\ reader.at = "payload_read")
            => ENABLED ReadPayload)
    /\ []((ReadPending /\ pc.at = "run_send") => ENABLED WriteEnds)
    /\ []((ReadPending /\ Running /\ queue # <<>>)
            => pc.at = "run_send" \/ ENABLED run_recv)
    /\ [][(ReadHeader \/ ReadPayload)
            => /\ pc' = pc
               /\ queue' = queue
               /\ written' = written]_vars
    /\ [][(run_recv \/ RunSend)
            => /\ reader' = reader
               /\ channel' = channel
               /\ message' = message]_vars

\* a message was published while a write of the outbound loop is pending
\* and the read task is in its payload read
C32_Witness ==
    /\ pc.at = "run_send"
    /\ reader.at = "payload_read"
    /\ channel # <<>>
    /\ queue # <<>>


\* C33: a heartbeat task whose tick has completed can enqueue its HeartBeat:
\* it is never suspended in the send, and the queue has room for it.
C33_HeartbeatNeverBlocked ==
    \A id \in Spawned :
        /\ tasks[id].heartbeat # "sending"
        /\ tasks[id].heartbeat = "woken" => HasRoom


\* C34: once close has returned, no WifiConnect task that was still in its
\* delay enqueues its command.
C34_WifiConnectCancelledOnClose ==
    [][closed
         => \A id \in Spawned :
                tasks[id].wifi = "sleeping"
                  => ~(/\ tasks'[id].wifi = "done"
                       /\ Enqueues(SendCommand("WifiConnect")))]_vars


\* C35: while the session is closed (close has returned and the device has
\* not been opened again) the read task issues no transfer and publishes
\* nothing, and the outbound loop writes no frame.
C35_CloseStopsTransferLoops ==
    [][(closed /\ driver.device = None)
         => /\ reader' = reader
            /\ channel' = channel
            /\ written'.tag # "Some"]_vars


\* C36: the read task never ends: whatever frame it reads and whether or
\* not a receiver is subscribed when it publishes, it goes on to a next
\* transfer.
C36_InboundLoopStaysAlive == reader.at # "dead"


\* start has returned the error of a failed write
StartFailed == [call |-> "start", value |-> Err("UsbTransferError")]

\* C37: a failed write of a handshake frame ends start: start goes on only
\* by writing its next frame, it returns the transport error without
\* spawning the WifiConnect task or the heartbeat task and without touching
\* the queue, and it is the caller's to call start again.
C37_HandshakeFailureAbortsStart ==
    /\ [][(pc.at = "start" /\ pc'.at = "start")
            => \/ handshake' = handshake
               \/ /\ Len(handshake') = Len(handshake) + 1
                  /\ SubSeq(handshake', 1, Len(handshake)) = handshake
                  /\ Len(handshake'[Len(handshake')]) >= HEADER_SIZE]_vars
    /\ [][returned' = StartFailed
            => /\ pc.at = "start"
               /\ pc' = Idle
               /\ tasks' = tasks
               /\ driver' = driver
               /\ queue' = queue]_vars
    /\ [][(pc.at = "start" /\ pc' = Idle)
            => \/ returned' = StartFailed
               \/ /\ returned' = [call |-> "start", value |-> Unit]
                  /\ Len(handshake) = Len(StartFrames(pc.config))]_vars

\* start has failed on a later call, after a start that spawned its tasks
C37_Witness ==
    /\ returned = StartFailed
    /\ pc = Idle
    /\ Cardinality(Spawned) = 1


\* the messages of the liveness traffic
Liveness == { HeartBeat, SendCommand("WifiConnect") }

\* C38: the tasks that enqueue HeartBeat and WifiConnect are spawned by a
\* start that has written all eleven frames of its handshake; before the
\* first such spawn neither message is queued, and a frame of either is
\* written to the OUT endpoint only after such a spawn and never while a
\* start is writing its handshake.
C38_HandshakePrecedesLiveness ==
    /\ [][\A id \in DOMAIN tasks :
            (tasks[id].wifi = "unspawned" /\ tasks'[id] # tasks[id])
              => /\ pc.at = "start"
                 /\ \E now \in SessionClock :
                        handshake = HandshakeOf(pc.config, now)]_vars
    /\ [](\A i \in DOMAIN queue : queue[i] \in Liveness => Spawned # {})
    /\ []((written.tag = "Some"
             /\ written.value \in { serialize(m) : m \in Liveness })
            => Spawned # {} /\ pc.at # "start")

\* the outbound loop has written a HeartBeat frame
C38_Witness ==
    /\ written = Some(serialize(HeartBeat))
    /\ pc.at = "run_recv"
    /\ Spawned # {}


\* the heartbeat tasks that have not been aborted
ActiveHeartbeats ==
    { id \in Spawned : tasks[id].heartbeat \in {"tick", "woken", "sending"} }

\* C39: at most one heartbeat task is active, and none while the session is
\* closed.
C39_SingleHeartbeat ==
    /\ Cardinality(ActiveHeartbeats) <= 1
    /\ closed => ActiveHeartbeats = {}


\* the tags to_message has an arm for with a payload, and without one
PayloadTags ==
    { "Command", "ManufacturerInfo", "SoftwareVersion", "BluetoothAddress",
      "BluetoothPIN", "BluetoothDeviceName", "WifiDeviceName", "HiCarLink",
      "BluetoothPairedList", "Plugged", "AudioData", "VideoData",
      "MediaData", "BoxSettings", "Phase", "Open", "SendFile" }
TagOnlyTags ==
    { "Unplugged", "Touch", "LogoType", "DisconnectPhone", "CloseDongle",
      "MultiTouch", "HeartBeat" }

\* a known tag is dispatched with a payload it has no arm for, or without
\* the payload its arm needs
PresenceMismatch ==
    \/ /\ extra_data = None
       /\ \E name \in PayloadTags : header.value.msg_type = Named(name)
    \/ /\ extra_data # None
       /\ \E name \in TagOnlyTags : header.value.msg_type = Named(name)

====
